---------------------------- MODULE Spec2Model ----------------------------
(***************************************************************************)
(* Verification model of the video_episode_renamer matching engine:        *)
(*   - MatchingPipeline (src/core/pipeline.py): the match() generator,     *)
(*     its two pairing strategies, the duration pre-filter and stop();     *)
(*   - MediaCache (src/core/cache.py): the audio buffer cache and its      *)
(*     FIFO eviction;                                                      *)
(*   - BaseMatcher.get_audio_stream_index (src/core/matcher.py) with the   *)
(*     probe get_stream_info (src/utils/media.py).                         *)
(*                                                                         *)
(* Scores and confidences are percentages (0.75 is 75, the -1 sentinel is  *)
(* -100); audio sizes and the audio budget are in MiB; durations are in    *)
(* seconds.                                                                *)
(***************************************************************************)
EXTENDS Integers, Sequences, FiniteSets, TLC

VARIABLES
    \* ---- MatchingPipeline fields
    mode,               \* self._mode
    language,           \* self._language
    threshold,          \* self._threshold (percent)
    running,            \* self._running
    matcher,            \* self._matcher: None or the mode whose matcher was built
    matcher_running,    \* self._matcher._running
    \* ---- arguments and locals of the match() generator
    references,         \* list of reference paths
    remuxes,            \* list of remux paths
    pc,                 \* position of the generator
    ref_i,              \* index of the outer/reference loop
    remux_j,            \* index of the inner/remux loop
    best_matches,       \* remux path -> [score, ref]
    used_references,    \* set of reference paths
    comparisons_done,   \* exhaustive progress counter
    files_done,         \* fingerprint-batch progress counter
    ref_fingerprints,   \* keys of the dict, in insertion order
    remux_fingerprints, \* keys of the dict, in insertion order
    events,             \* every event the generator has yielded, in order
    \* ---- MediaCache fields
    duration_cache,     \* self._duration_cache: path -> seconds
    stream_info_cache,  \* self._stream_info_cache: path -> stream list
    audio_cache,        \* self._audio_cache: <<key, nbytes>> in dict order
    audio_cache_size,   \* self._audio_cache_size
    max_audio_bytes,    \* self.max_audio_bytes
    \* ---- get_audio_stream_index
    file_streams,       \* the streams of the file asked about
    request,            \* the language last passed to set_language
    stream_result,      \* the last call: [called, found, index, all_streams,
                        \*          probed, language]
    \* ---- the matchers' comparison functions
    fp1,                \* compare_fingerprints: the first fingerprint
    fp2,                \* compare_fingerprints: the second fingerprint
    ref_features,       \* MFCCMatcher.compare: the reference's feature vector
    remux_features,     \* MFCCMatcher.compare: the remux's feature vector
    fn_result,          \* the value returned: [fn, num, den], num / den
    \* ---- the progress loop of _run_exhaustive_compare, taken alone
    total_comparisons,  \* len(references) * len(remuxes) of that loop
    \* ---- MediaCache under concurrent callers
    lock,               \* self._lock: the thread holding it, or None
    threads,            \* thread -> [pc, op, key, nbytes, popped, got]: the
                        \*          call it is in, its locals, its last get
    \* ---- CorrelationMatcher._chunked_correlation
    chunk_i,            \* chunks of chunk_starts the loop has gone through
    chunk,              \* what the loop found for the last of them
    valid_correlations, \* the correlations kept (percent)
    delays_ms,          \* the delays of the chunks kept
    \* ---- PerceptualHashMatcher and the cache's _video_hash_cache
    frames,             \* path -> the (phash, dhash) pairs of the frames
                        \*          the file yields, in timestamp order
    video_hash_cache,   \* path -> the hash list cached for it
    hash_result,        \* the last compare(): its pair, what the two
                        \*          _get_video_hashes calls returned, its
                        \*          value
    \* ---- the two strategies on one table of scores
    score_table,        \* <<ref, remux>> -> the score the matcher returns
    selection,          \* what each strategy ends with on that table
    \* ---- the runs of one pipeline
    run,                \* the match() calls made on the pipeline, the one in
                        \*          progress or about to start included
    matcher_run,        \* the run that built the object self._matcher holds
                        \*          (0: it holds None)
    \* ---- history (not program state)
    stale_stop,         \* stop() was called during or after an earlier run
    stop_requested,     \* stop() cleared the flag during this run
    steps,              \* steps the generator has taken
    top_scored,         \* remux -> the <<ref, score>> pairs holding the highest
                        \*          score a comparison returned for that remux
    visited,            \* the pairs visited: [ref, remux, ref_d, remux_d,
                        \*          compared], durations as cached at the visit
    cache_ops,          \* the audio cache operations executed, in order
    last_op             \* the last one, with the cache as it was before it

vars == << mode, language, threshold, running, matcher, matcher_running,
           references, remuxes, pc, ref_i, remux_j, best_matches,
           used_references, comparisons_done, files_done, ref_fingerprints,
           remux_fingerprints, events, duration_cache,
           stream_info_cache, audio_cache, audio_cache_size,
           max_audio_bytes, file_streams, request, stream_result,
           fp1, fp2, ref_features, remux_features, fn_result,
           total_comparisons, lock, threads, chunk_i, chunk,
           valid_correlations, delays_ms, frames, video_hash_cache,
           hash_result, score_table, selection, run, matcher_run,
           stale_stop,
           stop_requested, steps,
           top_scored, visited, cache_ops, last_op >>

pipeline_vars == << mode, language, threshold, running, matcher,
                    matcher_running, references, remuxes, pc, ref_i, remux_j,
                    best_matches, used_references, comparisons_done,
                    files_done, ref_fingerprints, remux_fingerprints, events,
                    stop_requested, steps, top_scored, visited >>

audio_vars == << audio_cache, audio_cache_size, max_audio_bytes, cache_ops,
                 last_op >>

stream_vars == << file_streams, request, stream_result >>

thread_vars == << lock, threads >>

run_vars == << run, matcher_run, stale_stop >>

chunk_vars == << chunk_i, chunk, valid_correlations, delays_ms >>

hash_vars == << frames, video_hash_cache, hash_result >>

select_vars == << score_table, selection >>

matcher_locals == << chunk_vars, hash_vars, select_vars >>

compare_vars == << fp1, fp2, ref_features, remux_features, fn_result,
                  total_comparisons, thread_vars, run_vars, matcher_locals >>

-----------------------------------------------------------------------------
(* Bounds and input sets                                                   *)

\* Most (reference, remux) pairs of one match() call: the lists are as long
\* as their cross product allows, and a list paired with an empty one is at
\* most this long.
MaxPairs == 4

None == "none"

RefPaths == << "ref1", "ref2", "ref3", "ref4", "ref5", "ref6" >>
RemuxPaths == << "rmx1", "rmx2", "rmx3", "rmx4", "rmx5", "rmx6" >>

\* The true duration of each file; a file's duration is in the cache or not.
\* ref1/rmx1 is the 1200 s / 1210 s pair, ref2/rmx1 differ by exactly 5 s.
FileDuration(path) ==
    CASE path \in {"ref1", "rmx2", "ref4", "rmx5"} -> 1200
      [] path \in {"ref2", "rmx3", "ref5", "rmx6"} -> 1205
      [] OTHER -> 1210

Prefix(s, n) == [k \in 1..n |-> s[k]]

Range(s) == {s[k] : k \in DOMAIN s}

\* Modes the pipeline may be given; "panako" and "bogus" name no matcher.
Modes == { "correlation", "mfcc", "phash", "scene", "chromaprint",
           "peak_matcher", "invariant_matcher", "panako", "bogus" }

\* Scores a matcher's compare() can return, by matcher: phash and scene
\* return a value in [0,1]; the MFCC cosine similarity lies in [-1,1]; the
\* correlation matcher returns 0.0 or a mean of peak values that are each
\* above 0.5 and not bounded by 1 (correlation.py:134).
CompareScores(m) ==
    IF m = "mfcc" THEN {-100, -50, 0, 90}
    ELSE IF m = "correlation" THEN {0, 75, 90, 150}
    ELSE {0, 75, 90}

\* Scores compare_fingerprints() can return (a ratio in [0,1]).
FingerprintScores == {0, 75, 90}


\* Durations are cached in whole seconds; 0 stands for "not cached"
\* (get_duration returns None, falsy like 0.0 at pipeline.py:173).
get_duration(cache, path) ==
    IF path \in DOMAIN cache THEN cache[path] ELSE 0

Abs(x) == IF x < 0 THEN -x ELSE x

\* The audio budget the cache is constructed with, in MiB (max_audio_mb).
MaxAudioMb == 10

\* Most audio cache operations in one behaviour.
MaxCacheOps == 4

\* Audio cache keys (path, stream_idx, sample_rate) and buffer sizes in MiB;
\* 12 alone exceeds the budget.
AudioKeys == { "A", "B", "C" }
AudioSizes == { 2, 6, 12 }

NoOp == [ op |-> None, key |-> None, nbytes |-> 0,
          cache_before |-> << >>, size_before |-> 0 ]

\* Most streams in a file.
MaxStreams == 3

\* No comparison function has been applied.
NoCall == [ fn |-> None, num |-> 0, den |-> 1 ]

\* The threads calling into the cache, none of them in a call.
Threads == { "t1", "t2" }

NoGet == [ key |-> None, value |-> 0, concurrent |-> FALSE ]

IdleThread == [ pc |-> "idle", op |-> None, key |-> None, nbytes |-> 0,
               popped |-> 0, got |-> NoGet ]

NoThreads ==
    /\ lock = None
    /\ threads = [ t \in Threads |-> IdleThread ]

\* The first match() call of the pipeline: no matcher was built yet.
FirstRun ==
    /\ run = 1
    /\ matcher_run = 0
    /\ stale_stop = FALSE

\* _chunked_correlation not entered.
NoChunk == [ kind |-> None, correlation |-> 0, delay_ms |-> 0 ]

NoChunks ==
    /\ chunk_i = 0
    /\ chunk = NoChunk
    /\ valid_correlations = << >>
    /\ delays_ms = << >>

\* What _get_video_hashes returns: None, or a list of hash pairs.
Absent == [ some |-> FALSE, hashes |-> << >> ]

Some(hashes) == [ some |-> TRUE, hashes |-> hashes ]

\* compare() of the perceptual-hash matcher not called.
NoHashCompare ==
    [ ref |-> None, remux |-> None, ref_hashes |-> Absent,
      remux_hashes |-> Absent, ref_cached |-> FALSE, remux_cached |-> FALSE,
      num |-> 0, den |-> 1, offset |-> 0, info |-> None ]

NoHashes ==
    /\ frames = << >>
    /\ video_hash_cache = << >>
    /\ hash_result = NoHashCompare

\* Neither strategy run on a table.
NoSelection ==
    [ done |-> FALSE, ex_best |-> << >>, fb_best |-> << >>,
      ex_events |-> << >>, fb_events |-> << >> ]

NoSelect ==
    /\ score_table = << >>
    /\ selection = NoSelection

NoMatcherCall ==
    /\ NoChunks
    /\ NoHashes
    /\ NoSelect

NoComparison ==
    /\ NoThreads
    /\ FirstRun
    /\ NoMatcherCall
    /\ fp1 = << >>
    /\ fp2 = << >>
    /\ ref_features = << >>
    /\ remux_features = << >>
    /\ fn_result = NoCall
    /\ total_comparisons = 0

NoResult == [ called |-> FALSE, found |-> FALSE, index |-> 0,
              all_streams |-> << >>, probed |-> FALSE, language |-> None ]

-----------------------------------------------------------------------------
(* MatchingPipeline                                                        *)

DefaultThreshold == 75

DurationTolerance == 5

\* mutant: the peak matcher is not run through the batch strategy
audio_fingerprinters_NoPeak == { "chromaprint", "invariant_matcher" }

audio_fingerprinters == { "chromaprint", "peak_matcher", "invariant_matcher" }

\* The operations a matcher class implements: compare() of the Peak and
\* Invariant matchers raises NotImplementedError, and only the three
\* fingerprinting classes define get_fingerprint and compare_fingerprints.
Implements(m) ==
    CASE m \in { "correlation", "mfcc", "phash", "scene" } -> { "compare" }
      [] m = "chromaprint" ->
             { "compare", "get_fingerprint", "compare_fingerprints" }
      [] m \in { "peak_matcher", "invariant_matcher" } ->
             { "get_fingerprint", "compare_fingerprints" }
      [] OTHER -> {}

\* mutant: the front end's "panako" entry names a matcher too
GetMatcher_WithPanako(m) ==
    IF m \in { "correlation", "chromaprint", "peak_matcher",
               "invariant_matcher", "mfcc", "phash", "scene", "panako" }
    THEN m
    ELSE None

\* _get_matcher: the matcher built for a mode, None when the mode names none.
GetMatcher(m) ==
    IF m \in { "correlation", "chromaprint", "peak_matcher",
               "invariant_matcher", "mfcc", "phash", "scene" }
    THEN m
    ELSE None

\* mutant: a difference of exactly the tolerance is skipped too
ShouldCompare_AtTolerance(cache, ref_path, remux_path) ==
    LET ref_duration == get_duration(cache, ref_path)
        remux_duration == get_duration(cache, remux_path)
    IN  IF ref_duration # 0 /\ remux_duration # 0
        THEN ~(Abs(ref_duration - remux_duration) >= DurationTolerance)
        ELSE TRUE

\* _should_compare: reads the duration cache only.
ShouldCompare(cache, ref_path, remux_path) ==
    LET ref_duration == get_duration(cache, ref_path)
        remux_duration == get_duration(cache, remux_path)
    IN  IF ref_duration # 0 /\ remux_duration # 0
        THEN ~(Abs(ref_duration - remux_duration) > DurationTolerance)
        ELSE TRUE

\* ---- Python floats are IEEE-754 doubles: a 53-bit mantissa, held here as
\* << top, l1, l2, l3, l4 >>, the four limbs of 13 bits below the 52nd bit,
\* and an exponent e; the value is mantissa * 2^(-52 - e).
LimbBase == 2^13

RECURSIVE Exponent(_, _, _)
\* the least e with k * 2^e >= t: then 1 <= k * 2^e / t < 2
Exponent(k, t, e) ==
    IF k * 2^e >= t THEN e ELSE Exponent(k, t, e + 1)

RECURSIVE Increment(_, _)
\* s and one unit of limb i, the carry running towards the top
Increment(s, i) ==
    IF i = 1 \/ s[i] + 1 < LimbBase
    THEN [s EXCEPT ![i] = s[i] + 1]
    ELSE Increment([s EXCEPT ![i] = 0], i - 1)

RECURSIVE Times(_, _, _, _)
\* s * n, exactly: the top limb takes all that is carried into it
Times(s, n, i, carry) ==
    LET c == s[i] * n + carry
    IN  IF i = 1
        THEN [s EXCEPT ![1] = c]
        ELSE Times([s EXCEPT ![i] = c % LimbBase], n, i - 1,
                   c \div LimbBase)

RECURSIVE BitLength(_)
BitLength(n) == IF n = 0 THEN 0 ELSE 1 + BitLength(n \div 2)

\* k / t in float arithmetic, 0 <= k <= t, 0 < t: the quotient rounded to the
\* nearest double, ties to the even mantissa
FloatDivide(k, t) ==
    IF k = 0
    THEN [ exponent |-> 0, mantissa |-> << 0, 0, 0, 0, 0 >> ]
    ELSE
        LET e == Exponent(k, t, 0)
            r0 == k * 2^e - t
            l1 == (r0 * LimbBase) \div t
            r1 == (r0 * LimbBase) % t
            l2 == (r1 * LimbBase) \div t
            r2 == (r1 * LimbBase) % t
            l3 == (r2 * LimbBase) \div t
            r3 == (r2 * LimbBase) % t
            l4 == (r3 * LimbBase) \div t
            r4 == (r3 * LimbBase) % t
            s == << 1, l1, l2, l3, l4 >>
            up == 2 * r4 > t \/ (2 * r4 = t /\ l4 % 2 = 1)
        IN  [ exponent |-> e,
              mantissa |-> IF up THEN Increment(s, 5) ELSE s ]

\* x * n in float arithmetic, n a small integer: the exact product rounded to
\* 53 significant bits, ties to even. The product's bits below the 52nd
\* stay in the limbs, so its leading bit is the leading bit of the top limb.
FloatTimes(x, n) ==
    LET p == Times(x.mantissa, n, 5, 0)
        d == BitLength(p[1]) - 1
    IN  IF d <= 0
        THEN [ exponent |-> x.exponent, mantissa |-> p ]
        ELSE
            LET low == p[5] % 2^d
                half == 2^(d - 1)
                kept == [p EXCEPT ![5] = p[5] - low]
                up == low > half
                      \/ (low = half /\ (p[5] \div 2^d) % 2 = 1)
                last == kept[5] + 2^d
            IN  [ exponent |-> x.exponent,
                  mantissa |->
                      IF ~up THEN kept
                      ELSE IF last < LimbBase
                      THEN [kept EXCEPT ![5] = last]
                      ELSE Increment([kept EXCEPT ![5] = 0], 4) ]

\* int(x), x >= 0: the bits at and above the 52nd, shifted by the exponent
FloatToInt(x) == x.mantissa[1] \div 2^x.exponent

\* mutant: the pair in progress is not counted
Progress_BeforePair(done, total, scale) ==
    IF total > 0 THEN ((done - 1) * scale) \div total ELSE 0

\* int((done / total) * scale) if total > 0 else 0
Progress(done, total, scale) ==
    IF total > 0
    THEN FloatToInt(FloatTimes(FloatDivide(done, total), scale))
    ELSE 0

ProgressEvent(message, value, ref_path, remux_path) ==
    [ type |-> "progress", message |-> message, value |-> value,
      remux_path |-> remux_path, reference_path |-> ref_path,
      confidence |-> 0, info |-> "", status |-> "" ]

MatchEvent(remux_path, ref_path, confidence, info, status) ==
    [ type |-> "match", message |-> "", value |-> 0,
      remux_path |-> remux_path, reference_path |-> ref_path,
      confidence |-> confidence, info |-> info, status |-> status ]

UnusedEvent(ref_path) ==
    MatchEvent(None, ref_path, 0, "Reference file not used", "Unused")

\* mutant: the first reference compared is kept
UpdateBest_KeepFirst(best, remux_path, ref_path, score) ==
    IF best[remux_path].ref = None
    THEN [best EXCEPT ![remux_path] = [score |-> score, ref |-> ref_path]]
    ELSE best

\* if score > best_matches[remux]['score']: best_matches[remux] = {...}
UpdateBest(best, remux_path, ref_path, score) ==
    IF score > best[remux_path].score
    THEN [best EXCEPT ![remux_path] = [score |-> score, ref |-> ref_path]]
    ELSE best

\* mutant: the threshold is not applied
AddUsed_AnyScore(used, match_info, thr) ==
    IF match_info.ref # None
    THEN used \cup {match_info.ref}
    ELSE used

\* mutant: a score equal to the threshold does not count
AddUsed_AboveThreshold(used, match_info, thr) ==
    IF match_info.ref # None /\ match_info.score > thr
    THEN used \cup {match_info.ref}
    ELSE used

\* if best_ref and best_score >= self._threshold: used_references.add(best_ref)
AddUsed(used, match_info, thr) ==
    IF match_info.ref # None /\ match_info.score >= thr
    THEN used \cup {match_info.ref}
    ELSE used

\* mutant: a best score of 0 counts as no match
ExhaustiveMatchEvent_PositiveOnly(remux_path, match_info) ==
    IF match_info.ref # None /\ match_info.score > 0
    THEN MatchEvent(remux_path, match_info.ref, match_info.score,
                    "matcher info", "")
    ELSE MatchEvent(remux_path, None, 0, "No suitable match found", "")

\* mutant: a reference an earlier match event names is not named again
ExhaustiveMatchEvent_Exclusive(remux_path, match_info) ==
    IF /\ match_info.ref # None
       /\ match_info.score >= 0
       /\ \A k \in DOMAIN events :
              events[k].type = "match" =>
                  events[k].reference_path # match_info.ref
    THEN MatchEvent(remux_path, match_info.ref, match_info.score,
                    "matcher info", "")
    ELSE MatchEvent(remux_path, None, 0, "No suitable match found", "")

\* The exhaustive strategy's match event for one remux (lines 137-140).
ExhaustiveMatchEvent(remux_path, match_info) ==
    IF match_info.ref # None /\ match_info.score >= 0
    THEN MatchEvent(remux_path, match_info.ref, match_info.score,
                    "matcher info", "")
    ELSE MatchEvent(remux_path, None, 0, "No suitable match found", "")

\* The fingerprint-batch strategy's match event for one remux (lines 99-100).
BatchMatchEvent(remux_path, match_info) ==
    MatchEvent(remux_path, match_info.ref, match_info.score,
               IF match_info.score >= 0 THEN "similarity"
                                        ELSE "Fingerprint failed", "")

\* history: the pairs holding the highest score returned for a remux
TopAfter(top, ref_path, score) ==
    IF top = {} \/ \A t \in top : score > t[2]
    THEN {<< ref_path, score >>}
    ELSE IF \E t \in top : score = t[2]
         THEN top \cup {<< ref_path, score >>}
         ELSE top

\* The files whose duration a matcher's compare() caches: the perceptual-hash
\* matcher probes a file whose duration is not cached and caches the result
\* (phash.py:39-44), unless the file's hashes are cached or the probe fails;
\* no other matcher writes a duration.  Either both files of the pair are
\* probed with success or none is.
ProbedSets(m, cache, ref_path, remux_path) ==
    IF m = "phash"
    THEN { {}, {ref_path, remux_path} \ DOMAIN cache }
    ELSE { {} }

set_duration(cache, paths) ==
    [ p \in DOMAIN cache \cup paths |->
        IF p \in DOMAIN cache THEN cache[p] ELSE FileDuration(p) ]

-----------------------------------------------------------------------------
(* match(): lines 42-57                                                    *)

cache_rest == << stream_info_cache, audio_vars, stream_vars, compare_vars >>

\* line 43: self._running = True
MatchBegin ==
    /\ pc = "idle"
    /\ running' = TRUE
    /\ pc' = "get_matcher"
    /\ UNCHANGED << mode, language, threshold, matcher, matcher_running,
                    references, remuxes, ref_i, remux_j, best_matches,
                    used_references, comparisons_done, files_done,
                    ref_fingerprints, remux_fingerprints, events, duration_cache, stop_requested, top_scored, visited >>
    /\ UNCHANGED cache_rest

\* mutant: a matcher of the mode left by an earlier run is used again
MatchGetMatcher_Reuse ==
    /\ pc = "get_matcher"
    /\ matcher' = GetMatcher(mode)
    /\ matcher_running' = IF matcher = GetMatcher(mode) THEN matcher_running
                          ELSE (GetMatcher(mode) # None)
    /\ matcher_run' = IF GetMatcher(mode) = None THEN 0
                      ELSE IF matcher = GetMatcher(mode) THEN matcher_run
                      ELSE run
    /\ IF GetMatcher(mode) = None
       THEN /\ events' = Append(events,
                   ProgressEvent("Invalid matcher mode", 0, None, None))
            /\ pc' = "done"
       ELSE /\ events' = Append(events,
                   ProgressEvent("Starting", 0, None, None))
            /\ pc' = "dispatch"
    /\ UNCHANGED << mode, language, threshold, running, references, remuxes,
                    ref_i, remux_j, best_matches, used_references,
                    comparisons_done, files_done, ref_fingerprints,
                    remux_fingerprints, duration_cache,
                    stop_requested, top_scored, visited >>
    /\ UNCHANGED << stream_info_cache, audio_vars, stream_vars, fp1, fp2,
                    ref_features, remux_features, fn_result,
                    total_comparisons, thread_vars, run, stale_stop,
                    matcher_locals >>

\* lines 44-49: build the matcher; an invalid mode yields one progress event
\* and returns, a valid one yields the 'Starting' event.
MatchGetMatcher ==
    /\ pc = "get_matcher"
    /\ matcher' = GetMatcher(mode)
    /\ matcher_running' = (GetMatcher(mode) # None)
    /\ matcher_run' = IF GetMatcher(mode) # None THEN run ELSE 0
    /\ IF GetMatcher(mode) = None
       THEN /\ events' = Append(events,
                   ProgressEvent("Invalid matcher mode", 0, None, None))
            /\ pc' = "done"
       ELSE /\ events' = Append(events,
                   ProgressEvent("Starting", 0, None, None))
            /\ pc' = "dispatch"
    /\ UNCHANGED << mode, language, threshold, running, references, remuxes,
                    ref_i, remux_j, best_matches, used_references,
                    comparisons_done, files_done, ref_fingerprints,
                    remux_fingerprints, duration_cache,
                    stop_requested, top_scored, visited >>
    /\ UNCHANGED << stream_info_cache, audio_vars, stream_vars, fp1, fp2,
                    ref_features, remux_features, fn_result,
                    total_comparisons, thread_vars, run, stale_stop,
                    matcher_locals >>

\* lines 51-55 with the locals each strategy sets up first
\* (lines 61-64 and 108-111).
MatchDispatch ==
    /\ pc = "dispatch"
    /\ IF mode \in audio_fingerprinters
       THEN /\ pc' = "fb_refs"
            /\ best_matches' = best_matches
       ELSE /\ pc' = "ex_outer"
            /\ best_matches' =
                 [ m \in Range(remuxes) |-> [score |-> -100, ref |-> None] ]
    /\ ref_i' = 1
    /\ remux_j' = 1
    /\ used_references' = {}
    /\ comparisons_done' = 0
    /\ files_done' = 0
    /\ ref_fingerprints' = << >>
    /\ remux_fingerprints' = << >>
    /\ UNCHANGED << mode, language, threshold, running, matcher,
                    matcher_running, references, remuxes, events, duration_cache, stop_requested, top_scored, visited >>
    /\ UNCHANGED cache_rest

\* line 57: the terminal progress event
MatchComplete ==
    /\ pc = "complete"
    /\ events' = Append(events,
                        ProgressEvent("Matching complete", 100, None, None))
    /\ pc' = "done"
    /\ UNCHANGED << mode, language, threshold, running, matcher,
                    matcher_running, references, remuxes, ref_i, remux_j,
                    best_matches, used_references, comparisons_done,
                    files_done, ref_fingerprints, remux_fingerprints, duration_cache, stop_requested, top_scored, visited >>
    /\ UNCHANGED cache_rest

-----------------------------------------------------------------------------
(* _run_exhaustive_compare: lines 106-144                                  *)

\* lines 113-114: the outer loop's next reference, or its end
ExOuter ==
    /\ pc = "ex_outer"
    /\ IF ref_i > Len(references) \/ ~running
       THEN pc' = "ex_after" /\ remux_j' = remux_j
       ELSE pc' = "ex_inner" /\ remux_j' = 1
    /\ UNCHANGED << mode, language, threshold, running, matcher,
                    matcher_running, references, remuxes, ref_i, best_matches,
                    used_references, comparisons_done, files_done,
                    ref_fingerprints, remux_fingerprints, events, duration_cache, stop_requested, top_scored, visited >>
    /\ UNCHANGED cache_rest

\* lines 115-120: the inner loop's next remux: count it and yield its
\* progress event, or leave the inner loop (exhausted, or break).
ExInner ==
    /\ pc = "ex_inner"
    /\ IF remux_j > Len(remuxes) \/ ~running
       THEN /\ ref_i' = ref_i + 1
            /\ pc' = "ex_outer"
            /\ UNCHANGED << comparisons_done, events >>
       ELSE /\ comparisons_done' = comparisons_done + 1
            /\ events' = Append(events,
                   ProgressEvent("Comparing",
                       Progress(comparisons_done + 1,
                                Len(references) * Len(remuxes), 100),
                       references[ref_i], remuxes[remux_j]))
            /\ pc' = "ex_compare"
            /\ ref_i' = ref_i
    /\ UNCHANGED << mode, language, threshold, running, matcher,
                    matcher_running, references, remuxes, remux_j,
                    best_matches, used_references, files_done,
                    ref_fingerprints, remux_fingerprints, duration_cache, stop_requested, top_scored, visited >>
    /\ UNCHANGED cache_rest

\* lines 122-127: the pre-filter, then the matcher's compare() and the
\* best-match update.
ExCompare ==
    /\ pc = "ex_compare"
    /\ LET ref_path == references[ref_i]
           remux_path == remuxes[remux_j]
           visit(c) == [ ref |-> ref_path, remux |-> remux_path,
                         ref_d |-> get_duration(duration_cache, ref_path),
                         remux_d |-> get_duration(duration_cache, remux_path),
                         compared |-> c ]
       IN  IF ~ShouldCompare(duration_cache, ref_path, remux_path)
           THEN /\ visited' = visited \cup {visit(FALSE)}
                /\ UNCHANGED << best_matches, duration_cache, top_scored >>
           ELSE /\ visited' = visited \cup {visit(TRUE)}
                /\ \E score \in CompareScores(matcher) :
                     /\ best_matches' =
                          UpdateBest(best_matches, remux_path, ref_path, score)
                     /\ top_scored' = [top_scored EXCEPT ![remux_path] =
                                          TopAfter(@, ref_path, score)]
                /\ \E probed \in ProbedSets(matcher, duration_cache,
                                            ref_path, remux_path) :
                     duration_cache' = set_duration(duration_cache, probed)
    /\ remux_j' = remux_j + 1
    /\ pc' = "ex_inner"
    /\ UNCHANGED << mode, language, threshold, running, matcher,
                    matcher_running, references, remuxes, ref_i,
                    used_references, comparisons_done, files_done,
                    ref_fingerprints, remux_fingerprints, events, stop_requested >>
    /\ UNCHANGED cache_rest

\* line 124, when compare() raises: the perceptual-hash matcher's frame
\* extraction lets a FileNotFoundError for a missing ffmpeg or ffprobe
\* through (media.py:140-163, phash.py:57), nothing on the way up to the
\* consumer catches it, and the generator ends there.  The file being hashed
\* had its duration cached or probed and cached before (phash.py:39-44).
ExCompareRaises ==
    /\ pc = "ex_compare"
    /\ matcher = "phash"
    /\ LET ref_path == references[ref_i]
           remux_path == remuxes[remux_j]
       IN  /\ ShouldCompare(duration_cache, ref_path, remux_path)
           /\ visited' = visited \cup
                 {[ ref |-> ref_path, remux |-> remux_path,
                    ref_d |-> get_duration(duration_cache, ref_path),
                    remux_d |-> get_duration(duration_cache, remux_path),
                    compared |-> TRUE ]}
           /\ \E path \in {ref_path, remux_path} :
                 duration_cache' =
                     set_duration(duration_cache,
                                  {path} \ DOMAIN duration_cache)
    /\ pc' = "raised"
    /\ UNCHANGED << mode, language, threshold, running, matcher,
                    matcher_running, references, remuxes, ref_i, remux_j,
                    best_matches, used_references, comparisons_done,
                    files_done, ref_fingerprints, remux_fingerprints, events,
                    stop_requested, top_scored >>
    /\ UNCHANGED cache_rest

\* mutant: the result loops are entered whatever the flag
ExAfter_NoCheck ==
    /\ pc = "ex_after"
    /\ pc' = "ex_emit"
    /\ remux_j' = 1
    /\ UNCHANGED << mode, language, threshold, running, matcher,
                    matcher_running, references, remuxes, ref_i, best_matches,
                    used_references, comparisons_done, files_done,
                    ref_fingerprints, remux_fingerprints, events,
                    duration_cache, stop_requested, top_scored, visited >>
    /\ UNCHANGED cache_rest

\* line 129: results are emitted only if the flag is still set
ExAfter ==
    /\ pc = "ex_after"
    /\ pc' = IF running THEN "ex_emit" ELSE "complete"
    /\ remux_j' = 1
    /\ UNCHANGED << mode, language, threshold, running, matcher,
                    matcher_running, references, remuxes, ref_i, best_matches,
                    used_references, comparisons_done, files_done,
                    ref_fingerprints, remux_fingerprints, events, duration_cache, stop_requested, top_scored, visited >>
    /\ UNCHANGED cache_rest

\* lines 130-140: one match event per entry of best_matches, in dict order
ExEmit ==
    /\ pc = "ex_emit"
    /\ IF remux_j > Len(remuxes)
       THEN /\ pc' = "ex_unused"
            /\ ref_i' = 1
            /\ UNCHANGED << remux_j, used_references, events >>
       ELSE LET remux_path == remuxes[remux_j]
                match_info == best_matches[remux_path]
            IN  /\ used_references' =
                     AddUsed(used_references, match_info, threshold)
                /\ events' = Append(events,
                       ExhaustiveMatchEvent(remux_path, match_info))
                /\ remux_j' = remux_j + 1
                /\ UNCHANGED << pc, ref_i >>
    /\ UNCHANGED << mode, language, threshold, running, matcher,
                    matcher_running, references, remuxes, best_matches,
                    comparisons_done, files_done, ref_fingerprints,
                    remux_fingerprints, duration_cache,
                    stop_requested, top_scored, visited >>
    /\ UNCHANGED cache_rest

\* mutant: the references are walked from the end of the list
EmitUnused_Reversed(at) ==
    /\ pc = at
    /\ IF ref_i > Len(references)
       THEN /\ pc' = "complete"
            /\ UNCHANGED << ref_i, events >>
       ELSE LET ref == references[Len(references) - ref_i + 1]
            IN  /\ events' = IF ref \notin used_references
                             THEN Append(events, UnusedEvent(ref))
                             ELSE events
                /\ ref_i' = ref_i + 1
                /\ pc' = pc
    /\ UNCHANGED << mode, language, threshold, running, matcher,
                    matcher_running, references, remuxes, remux_j,
                    best_matches, used_references, comparisons_done,
                    files_done, ref_fingerprints, remux_fingerprints,
                    duration_cache, stop_requested, top_scored, visited >>
    /\ UNCHANGED cache_rest

\* lines 142-144 (and 102-104): one event per reference not in used_references
EmitUnused(at) ==
    /\ pc = at
    /\ IF ref_i > Len(references)
       THEN /\ pc' = "complete"
            /\ UNCHANGED << ref_i, events >>
       ELSE /\ events' = IF references[ref_i] \notin used_references
                         THEN Append(events, UnusedEvent(references[ref_i]))
                         ELSE events
            /\ ref_i' = ref_i + 1
            /\ pc' = pc
    /\ UNCHANGED << mode, language, threshold, running, matcher,
                    matcher_running, references, remuxes, remux_j,
                    best_matches, used_references, comparisons_done,
                    files_done, ref_fingerprints, remux_fingerprints, duration_cache, stop_requested, top_scored, visited >>
    /\ UNCHANGED cache_rest

ExUnused == EmitUnused("ex_unused")

-----------------------------------------------------------------------------
(* _run_fingerprint_batch: lines 59-104                                    *)

\* lines 65-69: the next reference to analyse: return when the flag is
\* cleared, else yield its progress event; when the list is exhausted go on
\* to the remux loop.
FbRefs ==
    /\ pc = "fb_refs"
    /\ IF ref_i > Len(references)
       THEN /\ pc' = "fb_remuxes"
            /\ UNCHANGED << files_done, events >>
       ELSE IF ~running
            THEN /\ pc' = "complete"
                 /\ UNCHANGED << files_done, events >>
            ELSE /\ files_done' = files_done + 1
                 /\ events' = Append(events,
                        ProgressEvent("Analyzing ref",
                            Progress(files_done + 1,
                                     Len(references) + Len(remuxes), 50),
                            references[ref_i], None))
                 /\ pc' = "fb_ref_fp"
    /\ UNCHANGED << mode, language, threshold, running, matcher,
                    matcher_running, references, remuxes, ref_i, remux_j,
                    best_matches, used_references, comparisons_done,
                    ref_fingerprints, remux_fingerprints, duration_cache, stop_requested, top_scored, visited >>
    /\ UNCHANGED cache_rest

\* lines 70-71: get_fingerprint returns a fingerprint or nothing
FbRefFingerprint ==
    /\ pc = "fb_ref_fp"
    /\ \E fp \in BOOLEAN :
         ref_fingerprints' = IF fp
                             THEN Append(ref_fingerprints, references[ref_i])
                             ELSE ref_fingerprints
    /\ ref_i' = ref_i + 1
    /\ pc' = "fb_refs"
    /\ UNCHANGED << mode, language, threshold, running, matcher,
                    matcher_running, references, remuxes, remux_j,
                    best_matches, used_references, comparisons_done,
                    files_done, remux_fingerprints, events, duration_cache, stop_requested, top_scored, visited >>
    /\ UNCHANGED cache_rest

\* lines 74-78, and lines 82-84 once the remux list is exhausted
FbRemuxes ==
    /\ pc = "fb_remuxes"
    /\ IF remux_j > Len(remuxes)
       THEN /\ events' = Append(events,
                   ProgressEvent("Comparing fingerprints", 50, None, None))
            /\ best_matches' =
                 [ m \in Range(remuxes) |-> [score |-> -100, ref |-> None] ]
            /\ used_references' = {}
            /\ remux_j' = 1
            /\ ref_i' = 1
            /\ pc' = "fb_compare"
            /\ UNCHANGED files_done
       ELSE IF ~running
            THEN /\ pc' = "complete"
                 /\ UNCHANGED << files_done, events, best_matches,
                                 used_references, remux_j, ref_i >>
            ELSE /\ files_done' = files_done + 1
                 /\ events' = Append(events,
                        ProgressEvent("Analyzing remux",
                            Progress(files_done + 1,
                                     Len(references) + Len(remuxes), 50),
                            None, remuxes[remux_j]))
                 /\ pc' = "fb_remux_fp"
                 /\ UNCHANGED << best_matches, used_references, remux_j,
                                 ref_i >>
    /\ UNCHANGED << mode, language, threshold, running, matcher,
                    matcher_running, references, remuxes, comparisons_done,
                    ref_fingerprints, remux_fingerprints, duration_cache, stop_requested, top_scored, visited >>
    /\ UNCHANGED cache_rest

\* lines 79-80
FbRemuxFingerprint ==
    /\ pc = "fb_remux_fp"
    /\ \E fp \in BOOLEAN :
         remux_fingerprints' = IF fp
                               THEN Append(remux_fingerprints, remuxes[remux_j])
                               ELSE remux_fingerprints
    /\ remux_j' = remux_j + 1
    /\ pc' = "fb_remuxes"
    /\ UNCHANGED << mode, language, threshold, running, matcher,
                    matcher_running, references, remuxes, ref_i,
                    best_matches, used_references, comparisons_done,
                    files_done, ref_fingerprints, events, duration_cache, stop_requested, top_scored, visited >>
    /\ UNCHANGED cache_rest

\* lines 86-91: one iteration of the nested loops over the two fingerprint
\* dicts (remux_j and ref_i index their keys), or the loops' end.
FbCompare ==
    /\ pc = "fb_compare"
    /\ IF remux_j > Len(remux_fingerprints) \/ Len(ref_fingerprints) = 0
       THEN /\ pc' = "fb_emit"
            /\ remux_j' = 1
            /\ ref_i' = 1
            /\ UNCHANGED << best_matches, top_scored, visited >>
       ELSE IF ~running
            THEN /\ pc' = "complete"
                 /\ UNCHANGED << best_matches, top_scored, visited, remux_j,
                                 ref_i >>
            ELSE LET remux_path == remux_fingerprints[remux_j]
                     ref_path == ref_fingerprints[ref_i]
                 IN  /\ \E score \in FingerprintScores :
                          /\ best_matches' = UpdateBest(best_matches,
                                                 remux_path, ref_path, score)
                          /\ top_scored' = [top_scored EXCEPT ![remux_path] =
                                               TopAfter(@, ref_path, score)]
                     /\ visited' = visited \cup
                           { [ ref |-> ref_path, remux |-> remux_path,
                               ref_d |-> 0, remux_d |-> 0,
                               compared |-> TRUE ] }
                     /\ IF ref_i < Len(ref_fingerprints)
                        THEN ref_i' = ref_i + 1 /\ remux_j' = remux_j
                        ELSE ref_i' = 1 /\ remux_j' = remux_j + 1
                     /\ pc' = pc
    /\ UNCHANGED << mode, language, threshold, running, matcher,
                    matcher_running, references, remuxes, used_references,
                    comparisons_done, files_done, ref_fingerprints,
                    remux_fingerprints, events, duration_cache,
                    stop_requested >>
    /\ UNCHANGED cache_rest

\* lines 93-100: one match event per entry of best_matches, in dict order
FbEmit ==
    /\ pc = "fb_emit"
    /\ IF remux_j > Len(remuxes)
       THEN /\ pc' = "fb_unused"
            /\ ref_i' = 1
            /\ UNCHANGED << remux_j, used_references, events >>
       ELSE LET remux_path == remuxes[remux_j]
                match_info == best_matches[remux_path]
            IN  /\ used_references' =
                     AddUsed(used_references, match_info, threshold)
                /\ events' = Append(events,
                       BatchMatchEvent(remux_path, match_info))
                /\ remux_j' = remux_j + 1
                /\ UNCHANGED << pc, ref_i >>
    /\ UNCHANGED << mode, language, threshold, running, matcher,
                    matcher_running, references, remuxes, best_matches,
                    comparisons_done, files_done, ref_fingerprints,
                    remux_fingerprints, duration_cache,
                    stop_requested, top_scored, visited >>
    /\ UNCHANGED cache_rest

FbUnused == EmitUnused("fb_unused")

-----------------------------------------------------------------------------
(* stop(): lines 37-40, called from any thread while a run is in           *)
(* progress (the front end enables its stop button for the run only,       *)
(* main.py:256 and 319)                                                    *)

InRun == pc \notin {"idle", "done", "raised"}

\* lines 38-40: the flag is cleared and the active matcher, if any, stopped
stop ==
    /\ InRun
    /\ running' = FALSE
    /\ matcher_running' = IF matcher # None THEN FALSE ELSE matcher_running
    /\ stop_requested' = TRUE
    /\ UNCHANGED << mode, language, threshold, matcher, references, remuxes,
                    pc, ref_i, remux_j, best_matches, used_references,
                    comparisons_done, files_done, ref_fingerprints,
                    remux_fingerprints, events, duration_cache,
                    steps, top_scored, visited >>
    /\ UNCHANGED cache_rest

-----------------------------------------------------------------------------
(* The pipeline's specification: one match() run over bounded inputs, with *)
(* stop() called any number of times while it runs.                        *)

\* The durations an earlier run left in the cache: of any of the files; the
\* fingerprint-batch strategy never reads a duration, so its runs start from
\* the empty cache only.
InitiallyCached ==
    IF mode \in audio_fingerprinters
    THEN { {} }
    ELSE SUBSET (Range(references) \cup Range(remuxes))

\* match() called on a new pipeline with lists of at most n pairs
InitUpTo(n) ==
    /\ mode \in Modes
    /\ language = None
    /\ threshold = DefaultThreshold
    /\ running = FALSE
    /\ matcher = None
    /\ matcher_running = FALSE
    /\ \E nr \in 0..n : \E nm \in 0..n :
         /\ nr * nm <= n
         /\ references = Prefix(RefPaths, nr)
         /\ remuxes = Prefix(RemuxPaths, nm)
    /\ pc = "idle"
    /\ ref_i = 1
    /\ remux_j = 1
    /\ best_matches = << >>
    /\ used_references = {}
    /\ comparisons_done = 0
    /\ files_done = 0
    /\ ref_fingerprints = << >>
    /\ remux_fingerprints = << >>
    /\ events = << >>
    /\ duration_cache \in
         { [p \in S |-> FileDuration(p)] : S \in InitiallyCached }
    /\ stream_info_cache = << >>
    /\ audio_cache = << >>
    /\ audio_cache_size = 0
    /\ max_audio_bytes = MaxAudioMb
    /\ file_streams = << >>
    /\ request = None
    /\ stream_result = NoResult
    /\ NoComparison
    /\ stop_requested = FALSE
    /\ steps = 0
    /\ top_scored = [m \in Range(remuxes) |-> {}]
    /\ visited = {}
    /\ cache_ops = << >>
    /\ last_op = NoOp

Init == InitUpTo(MaxPairs)

\* One step of the generator, resumed by its consumer.
MatchStep ==
    /\ \/ MatchBegin
       \/ MatchGetMatcher
       \/ MatchDispatch
       \/ ExOuter
       \/ ExInner
       \/ ExCompare
       \/ ExCompareRaises
       \/ ExAfter
       \/ ExEmit
       \/ ExUnused
       \/ FbRefs
       \/ FbRefFingerprint
       \/ FbRemuxes
       \/ FbRemuxFingerprint
       \/ FbCompare
       \/ FbEmit
       \/ FbUnused
       \/ MatchComplete
    /\ steps' = steps + 1

Next ==
    \/ MatchStep
    \/ stop

Spec == Init /\ [][Next]_vars


-----------------------------------------------------------------------------
(* MediaCache: the audio cache, lines 66-85, and clear(), lines 31-41      *)

RECURSIVE SumBytes(_)
SumBytes(cache) ==
    IF cache = << >> THEN 0 ELSE Head(cache).nbytes + SumBytes(Tail(cache))

\* mutant: the newest entry is evicted first
RECURSIVE EvictAudio_NewestFirst(_, _, _, _)
EvictAudio_NewestFirst(cache, size, needed_bytes, budget) ==
    IF cache # << >> /\ size + needed_bytes > budget
    THEN EvictAudio_NewestFirst(SubSeq(cache, 1, Len(cache) - 1),
                                size - cache[Len(cache)].nbytes,
                                needed_bytes, budget)
    ELSE [ cache |-> cache, size |-> size ]

\* _evict_audio: pop the first key of the dict while the dict is not empty
\* and the tracked size plus the needed bytes exceeds the budget.
RECURSIVE EvictAudio(_, _, _, _)
EvictAudio(cache, size, needed_bytes, budget) ==
    IF cache # << >> /\ size + needed_bytes > budget
    THEN EvictAudio(Tail(cache), size - Head(cache).nbytes, needed_bytes,
                    budget)
    ELSE [ cache |-> cache, size |-> size ]

\* self._audio_cache[key] = audio: a key the dict holds keeps its position
\* and gets the new value, a new key goes last.
PutAudio(cache, key, nbytes) ==
    IF \E k \in DOMAIN cache : cache[k].key = key
    THEN [ k \in DOMAIN cache |->
             IF cache[k].key = key THEN [key |-> key, nbytes |-> nbytes]
                                   ELSE cache[k] ]
    ELSE Append(cache, [key |-> key, nbytes |-> nbytes])

\* mutant: at most one entry is evicted
SetAudioResult_EvictOne(cache, size, key, nbytes, budget) ==
    LET room == IF size + nbytes > budget /\ cache # << >>
                THEN [ cache |-> Tail(cache),
                       size |-> size - Head(cache).nbytes ]
                ELSE [ cache |-> cache, size |-> size ]
    IN  [ cache |-> PutAudio(room.cache, key, nbytes),
          size |-> room.size + nbytes ]

\* set_audio, lines 68-77
SetAudioResult(cache, size, key, nbytes, budget) ==
    LET room == IF size + nbytes > budget
                THEN EvictAudio(cache, size, nbytes, budget)
                ELSE [ cache |-> cache, size |-> size ]
    IN  [ cache |-> PutAudio(room.cache, key, nbytes),
          size |-> room.size + nbytes ]

set_audio(key, nbytes) ==
    /\ Len(cache_ops) < MaxCacheOps
    /\ LET after == SetAudioResult(audio_cache, audio_cache_size, key, nbytes,
                                   max_audio_bytes)
       IN  /\ audio_cache' = after.cache
           /\ audio_cache_size' = after.size
    /\ cache_ops' = Append(cache_ops,
                           [op |-> "set_audio", key |-> key, nbytes |-> nbytes])
    /\ last_op' = [ op |-> "set_audio", key |-> key, nbytes |-> nbytes,
                    cache_before |-> audio_cache,
                    size_before |-> audio_cache_size ]
    /\ UNCHANGED << max_audio_bytes, duration_cache, stream_info_cache >>
    /\ UNCHANGED pipeline_vars
    /\ UNCHANGED stream_vars
    /\ UNCHANGED compare_vars

SetAudio == \E key \in AudioKeys : \E nbytes \in AudioSizes :
                set_audio(key, nbytes)

\* clear, lines 33-41
clear ==
    /\ Len(cache_ops) < MaxCacheOps
    /\ duration_cache' = << >>
    /\ stream_info_cache' = << >>
    /\ audio_cache' = << >>
    /\ audio_cache_size' = 0
    /\ cache_ops' = Append(cache_ops,
                           [op |-> "clear", key |-> None, nbytes |-> 0])
    /\ last_op' = [ op |-> "clear", key |-> None, nbytes |-> 0,
                    cache_before |-> audio_cache,
                    size_before |-> audio_cache_size ]
    /\ UNCHANGED max_audio_bytes
    /\ UNCHANGED pipeline_vars
    /\ UNCHANGED stream_vars
    /\ UNCHANGED compare_vars

\* The cache as constructed, no run started.
InitIdle ==
    /\ mode = "correlation"
    /\ language = None
    /\ threshold = DefaultThreshold
    /\ running = FALSE
    /\ matcher = None
    /\ matcher_running = FALSE
    /\ references = << >>
    /\ remuxes = << >>
    /\ pc = "idle"
    /\ ref_i = 1
    /\ remux_j = 1
    /\ best_matches = << >>
    /\ used_references = {}
    /\ comparisons_done = 0
    /\ files_done = 0
    /\ ref_fingerprints = << >>
    /\ remux_fingerprints = << >>
    /\ events = << >>
    /\ duration_cache = << >>
    /\ stream_info_cache = << >>
    /\ audio_cache = << >>
    /\ audio_cache_size = 0
    /\ max_audio_bytes = MaxAudioMb
    /\ request = None
    /\ stream_result = NoResult
    /\ NoComparison
    /\ stop_requested = FALSE
    /\ steps = 0
    /\ top_scored = << >>
    /\ visited = {}
    /\ cache_ops = << >>
    /\ last_op = NoOp

InitCache ==
    /\ InitIdle
    /\ file_streams = << >>

NextCache ==
    \/ SetAudio
    \/ clear

SpecCache == InitCache /\ [][NextCache]_vars

-----------------------------------------------------------------------------
(* Audio-stream selection: BaseMatcher.get_audio_stream_index              *)
(* (matcher.py:30-79), the probe get_stream_info (media.py:12-51) and      *)
(* MatchingPipeline.set_language (pipeline.py:31-32)                       *)

\* str.lower() on the strings of the model
Lower(s) ==
    CASE s = "JPN" -> "jpn"
      [] s = "Commentary" -> "commentary"
      [] OTHER -> s

\* 'commentary' in title, for a lowercased title of the model
ContainsCommentary(title) == title = "commentary"

\* A stream as the selection reads it: codec_type is s.get('codec_type'),
\* language and title are s.get('tags', {}).get(..., ''); type and
\* prop_language are the keys 'type' and 'properties'.'language' that only
\* the probe's tracks carry.  None stands for an absent key.
Stream(codec_type, lang, title) ==
    [ codec_type |-> codec_type, language |-> lang, title |-> title,
      type |-> None, prop_language |-> None ]

\* The streams a file can hold.
StreamKinds ==
    { Stream("video", "jpn", ""),
      Stream("audio", "eng", ""),
      Stream("audio", "jpn", "Commentary"),
      Stream("audio", "jpn", ""),
      Stream("audio", "JPN", "") }

\* The languages a caller can request; None is no request.
Requests == { None, "jpn", "JPN", "fre" }

RECURSIVE SeqsUpTo(_, _)
SeqsUpTo(S, n) ==
    IF n = 0 THEN { << >> }
    ELSE LET shorter == SeqsUpTo(S, n - 1)
         IN  shorter \cup { Append(q, x) : q \in shorter, x \in S }

AudioOnly(streams) == SelectSeq(streams, LAMBDA s : s.codec_type = "audio")

\* get_stream_info: the file's audio tracks in mkvmerge's format (the
\* 'tracks' whose 'type' is 'audio'), or rebuilt from ffprobe's audio streams
\* as {'properties': {...}}, or [] when the tool fails.  No track has a
\* 'codec_type' or a 'tags' key.
MkvmergeTrack(s) ==
    [ codec_type |-> None, language |-> "", title |-> "",
      type |-> "audio", prop_language |-> s.language ]

FfprobeTrack(s) ==
    [ codec_type |-> None, language |-> "", title |-> "",
      type |-> None, prop_language |-> s.language ]

get_stream_info(streams) ==
    LET audio == AudioOnly(streams)
    IN  { [k \in DOMAIN audio |-> MkvmergeTrack(audio[k])],
          [k \in DOMAIN audio |-> FfprobeTrack(audio[k])],
          << >> }

\* lines 43-45: the (index, stream) pairs of the audio streams; indices are
\* those of enumerate(), from 0
AudioStreamIndices(all_streams) ==
    { k \in DOMAIN all_streams : all_streams[k].codec_type = "audio" }

Min(S) == CHOOSE x \in S : \A y \in S : x <= y

\* mutant: the first stream of the language wins, commentary or not
SelectAudioStream_IgnoreCommentary(all_streams, lang) ==
    LET audio_streams == AudioStreamIndices(all_streams)
        candidates == { k \in audio_streams :
                          Lower(all_streams[k].language) = lang }
    IN  IF all_streams = << >> \/ audio_streams = {}
        THEN [ found |-> FALSE, index |-> 0 ]
        ELSE IF lang = None \/ lang = ""
             THEN [ found |-> TRUE, index |-> Min(audio_streams) - 1 ]
             ELSE IF candidates # {}
                  THEN [ found |-> TRUE, index |-> Min(candidates) - 1 ]
                  ELSE [ found |-> TRUE, index |-> Min(audio_streams) - 1 ]

\* lines 39-79, on the list fetched; the result is [found, index]
SelectAudioStream(all_streams, lang) ==
    LET audio_streams == AudioStreamIndices(all_streams)
        candidates == { k \in audio_streams :
                          Lower(all_streams[k].language) = lang }
        non_comm == { k \in candidates :
                        ~ContainsCommentary(Lower(all_streams[k].title)) }
    IN  IF all_streams = << >> \/ audio_streams = {}
        THEN [ found |-> FALSE, index |-> 0 ]
        ELSE IF lang = None \/ lang = ""
             THEN [ found |-> TRUE, index |-> Min(audio_streams) - 1 ]
             ELSE IF candidates # {}
                  THEN \* stable sort on non_comm, True first
                       [ found |-> TRUE,
                         index |-> IF non_comm # {} THEN Min(non_comm) - 1
                                   ELSE Min(candidates) - 1 ]
                  ELSE [ found |-> TRUE, index |-> Min(audio_streams) - 1 ]

ThePath == "file"

\* set_language: language.lower() if language else None
set_language(lang) ==
    /\ ~stream_result.called
    /\ language' = IF lang # None /\ lang # "" THEN Lower(lang) ELSE None
    /\ request' = lang
    /\ UNCHANGED << mode, threshold, running, matcher, matcher_running,
                    references, remuxes, pc, ref_i, remux_j, best_matches,
                    used_references, comparisons_done, files_done,
                    ref_fingerprints, remux_fingerprints, events,
                    stop_requested, steps, top_scored, visited >>
    /\ UNCHANGED << duration_cache, stream_info_cache >>
    /\ UNCHANGED audio_vars
    /\ UNCHANGED << file_streams, stream_result >>
    /\ UNCHANGED compare_vars

SetLanguage == \E lang \in Requests : set_language(lang)

\* MediaCache.set_stream_info (cache.py:56-59), called with the descriptor
\* list of the file: each stream with its codec_type and tags
set_stream_info ==
    /\ ~stream_result.called
    /\ ThePath \notin DOMAIN stream_info_cache
    /\ stream_info_cache' = [ p \in {ThePath} |-> file_streams ]
    /\ UNCHANGED duration_cache
    /\ UNCHANGED pipeline_vars
    /\ UNCHANGED audio_vars
    /\ UNCHANGED stream_vars
    /\ UNCHANGED compare_vars

\* get_audio_stream_index(path, self._language), lines 34-79
get_audio_stream_index ==
    /\ ~stream_result.called
    /\ \E fetched \in IF ThePath \in DOMAIN stream_info_cache
                      THEN { stream_info_cache[ThePath] }
                      ELSE get_stream_info(file_streams) :
         LET r == SelectAudioStream(fetched, language)
         IN  /\ stream_info_cache' = [ p \in {ThePath} |-> fetched ]
             /\ stream_result' =
                  [ called |-> TRUE, found |-> r.found, index |-> r.index,
                    all_streams |-> fetched,
                    probed |-> ThePath \notin DOMAIN stream_info_cache,
                    language |-> language ]
    /\ UNCHANGED << duration_cache, file_streams, request >>
    /\ UNCHANGED pipeline_vars
    /\ UNCHANGED audio_vars
    /\ UNCHANGED compare_vars

InitStream ==
    /\ InitIdle
    /\ file_streams \in SeqsUpTo(StreamKinds, MaxStreams)

NextStream ==
    \/ SetLanguage
    \/ set_stream_info
    \/ get_audio_stream_index

SpecStream == InitStream /\ [][NextStream]_vars

-----------------------------------------------------------------------------
(* Properties of the event stream                                          *)

ValidMode == GetMatcher(mode) # None

Exhaustive == ValidMode /\ mode \notin audio_fingerprinters

Last(s) == s[Len(s)]

IsCompleteEvent(e) ==
    e.type = "progress" /\ e.message = "Matching complete" /\ e.value = 100

\* positions of the match events of remux m
RemuxMatches(evs, m) ==
    { k \in DOMAIN evs : evs[k].type = "match" /\ evs[k].remux_path = m }

\* positions of the 'Reference file not used' events of reference r
UnusedEvents(evs, r) ==
    { k \in DOMAIN evs : /\ evs[k].type = "match"
                         /\ evs[k].info = "Reference file not used"
                         /\ evs[k].reference_path = r }

NumMatchEvents(evs) ==
    Cardinality({ k \in DOMAIN evs : evs[k].type = "match" })

NumCompleteEvents(evs) ==
    Cardinality({ k \in DOMAIN evs : evs[k].message = "Matching complete" })

\* Positions at which the generator is inside a comparison unit: suspended
\* at the progress event of a pair or file whose comparison or fingerprint
\* comes next.
UnitInFlight == pc \in { "ex_compare", "fb_ref_fp", "fb_remux_fp" }

\* C1: once stop() has been called during a run and the comparison unit in
\* flight has completed, no step of the run emits a match event, and the
\* stopped run ends with the 'Matching complete' event (value 100) as its
\* last event.
C1_NoMatchEventAfterStop ==
    [][ /\ (stop_requested /\ ~UnitInFlight)
            => NumMatchEvents(events') = NumMatchEvents(events)
        /\ (pc' = "done" /\ stop_requested' /\ ValidMode)
            => IsCompleteEvent(Last(events')) ]_vars

\* Steps a run over nr references and nm remuxes takes at most.
StepBound(nr, nm) == 9 + 3 * (nr + nm) + 2 * nr * nm

\* C2: for every mode that names a matcher and all lists, the run ends: it
\* is never stuck before its end and takes a bounded number of steps; and at
\* its end the event stream holds exactly one 'Matching complete' event,
\* value 100, as its last event.
C2_TerminatesWithComplete ==
    ValidMode =>
        /\ steps <= StepBound(Len(references), Len(remuxes))
        /\ pc # "done" => ENABLED MatchStep
        /\ pc = "done" => /\ events # << >>
                          /\ IsCompleteEvent(Last(events))
                          /\ NumCompleteEvents(events) = 1

\* a stopped fingerprint-batch run and its terminal event
C2_Witness ==
    /\ pc = "done"
    /\ mode \in audio_fingerprinters
    /\ stop_requested
    /\ NumMatchEvents(events) = 0
    /\ IsCompleteEvent(Last(events))

\* The run went through to its end without a stop() call.
Completed == pc = "done" /\ ValidMode /\ ~stop_requested

\* number of pair progress events before position k
ComparedBefore(evs, k) ==
    Cardinality({ i \in 1..(k - 1) : evs[i].message = "Comparing" })

C4_UnusedIffNeverSelected ==
    Completed =>
        \A r \in Range(references) :
            IF \E k \in DOMAIN events : /\ events[k].type = "match"
                                        /\ events[k].remux_path # None
                                        /\ events[k].reference_path = r
            THEN UnusedEvents(events, r) = {}
            ELSE Cardinality(UnusedEvents(events, r)) = 1

\* C4 amended: in a completed run a reference has one 'Reference file not
\* used' event when it is the reference_path of no remux's match event whose
\* confidence is at or above the threshold, and none otherwise.
C4_UnusedIffNotMatchedAtThreshold ==
    Completed =>
        \A r \in Range(references) :
            IF \E k \in DOMAIN events : /\ events[k].type = "match"
                                        /\ events[k].remux_path # None
                                        /\ events[k].reference_path = r
                                        /\ events[k].confidence >= threshold
            THEN UnusedEvents(events, r) = {}
            ELSE Cardinality(UnusedEvents(events, r)) = 1

\* ref1 is rmx1's best match below the threshold and is reported unused,
\* ref2 is rmx2's best match at the threshold and is not
C4_Witness ==
    /\ Completed
    /\ \E k \in RemuxMatches(events, "rmx1") :
         /\ events[k].reference_path = "ref1"
         /\ events[k].confidence < threshold
    /\ \E k \in RemuxMatches(events, "rmx2") :
         /\ events[k].reference_path = "ref2"
         /\ events[k].confidence = threshold
    /\ Cardinality(UnusedEvents(events, "ref1")) = 1
    /\ UnusedEvents(events, "ref2") = {}

\* Every remux has one highest-scoring reference, at or above the threshold,
\* no two remuxes the same one, and there are as many references as remuxes.
DistinctBestReferences ==
    /\ Len(references) = Len(remuxes)
    /\ \A m \in Range(remuxes) :
         /\ Cardinality(top_scored[m]) = 1
         /\ \A t \in top_scored[m] : t[2] >= threshold
    /\ \A m1, m2 \in Range(remuxes) : \A t1 \in top_scored[m1] :
         \A t2 \in top_scored[m2] : m1 # m2 => t1[1] # t2[1]

\* C5: when every remux's highest-scoring reference is a different
\* reference, each of these scores is at or above the threshold and there
\* are as many references as remuxes, a completed run emits exactly one
\* match event per remux, pairing it with that reference at that score, and
\* no 'Reference file not used' event.
C5_DistinctBestsAllPaired ==
    (Completed /\ DistinctBestReferences) =>
        /\ \A m \in Range(remuxes) :
             /\ Cardinality(RemuxMatches(events, m)) = 1
             /\ \A k \in RemuxMatches(events, m) :
                  << events[k].reference_path, events[k].confidence >>
                      \in top_scored[m]
        /\ \A r \in Range(references) : UnusedEvents(events, r) = {}
        /\ NumMatchEvents(events) = Len(remuxes)

\* two references and two remuxes matched crosswise, one of them exactly at
\* the threshold
C5_Witness ==
    /\ Completed /\ Exhaustive /\ DistinctBestReferences
    /\ Len(references) = 2
    /\ top_scored["rmx1"] = { << "ref2", 90 >> }
    /\ top_scored["rmx2"] = { << "ref1", 75 >> }
    /\ NumMatchEvents(events) = 2

\* C6: in the exhaustive strategy the step that handles a pair skips the
\* matcher exactly when both durations are in the cache and differ by more
\* than 5 seconds; a skipped pair leaves the duration cache and the best
\* matches as they were; and at the end of a completed run a reference all
\* of whose pairs were skipped has a 'Reference file not used' event.
C6_DurationPreFilter ==
    [][ /\ (pc = "ex_compare" /\ pc' # pc) =>
              LET r == references[ref_i]
                  m == remuxes[remux_j]
                  skip == /\ r \in DOMAIN duration_cache
                          /\ m \in DOMAIN duration_cache
                          /\ \/ duration_cache[r] - duration_cache[m] > 5
                             \/ duration_cache[m] - duration_cache[r] > 5
              IN  /\ \E v \in visited' \ visited :
                       v.ref = r /\ v.remux = m /\ v.compared = ~skip
                  /\ skip => /\ duration_cache' = duration_cache
                             /\ best_matches' = best_matches
        /\ (pc' = "done" /\ Exhaustive /\ ~stop_requested') =>
              \A r \in Range(references) :
                  (/\ Len(remuxes) > 0
                   /\ \A v \in visited' : v.ref = r => ~v.compared)
                      => UnusedEvents(events', r) # {} ]_vars

\* the 1200 s reference against the 1210 s remux, both cached: skipped and
\* reported unused; another pair with one duration missing was compared
C6_Witness ==
    /\ Completed /\ Exhaustive
    /\ \E v \in visited : /\ v.ref = "ref1" /\ v.remux = "rmx1"
                          /\ v.ref_d = 1200 /\ v.remux_d = 1210
                          /\ ~v.compared
    /\ \A v \in visited : v.ref = "ref1" => ~v.compared
    /\ UnusedEvents(events, "ref1") # {}
    /\ \E v \in visited : v.compared /\ (v.ref_d = 0 \/ v.remux_d = 0)

-----------------------------------------------------------------------------
(* Properties of the audio cache                                           *)

\* the entries of the keys other than key, in order
OtherEntries(cache, key) == SelectSeq(cache, LAMBDA e : e.key # key)

\* C7: a set_audio of n bytes evicts nothing when the tracked size plus n is
\* within the budget; otherwise it removes the oldest entries, as few as
\* make the tracked size plus n fit, or all when that is not enough; then
\* the buffer is in the cache whatever its size.  Inserting 6, 6 and 6 MiB
\* as A, B, C leaves only C cached.
C7_SetAudioEvictsOldestFirst ==
    /\ last_op.op = "set_audio" =>
         LET before == last_op.cache_before
             fits(k) == last_op.size_before
                          - SumBytes(SubSeq(before, 1, k)) + last_op.nbytes
                            <= max_audio_bytes
             evicted == IF \E k \in 0..Len(before) : fits(k)
                        THEN Min({ k \in 0..Len(before) : fits(k) })
                        ELSE Len(before)
             kept == SubSeq(before, evicted + 1, Len(before))
         IN  /\ OtherEntries(audio_cache, last_op.key)
                  = OtherEntries(kept, last_op.key)
             /\ \E k \in DOMAIN audio_cache :
                  audio_cache[k] = [ key |-> last_op.key,
                                     nbytes |-> last_op.nbytes ]
             /\ audio_cache_size = last_op.size_before
                  - SumBytes(SubSeq(before, 1, evicted)) + last_op.nbytes
    /\ cache_ops = << [op |-> "set_audio", key |-> "A", nbytes |-> 6],
                      [op |-> "set_audio", key |-> "B", nbytes |-> 6],
                      [op |-> "set_audio", key |-> "C", nbytes |-> 6] >>
         => audio_cache = << [key |-> "C", nbytes |-> 6] >>

\* an insert that evicted the oldest of three entries and kept the others
C7_Witness ==
    /\ last_op.op = "set_audio"
    /\ Len(last_op.cache_before) = 3
    /\ Len(audio_cache) = 2
    /\ audio_cache[1] = last_op.cache_before[3]
    /\ audio_cache[2].key = last_op.cache_before[1].key

\* C8: the bytes of the audio buffers held are within the budget unless the
\* cache holds exactly one audio entry.
C8_HeldBytesWithinBudget ==
    SumBytes(audio_cache) <= max_audio_bytes \/ Len(audio_cache) = 1

\* an insert that evicted while a re-inserted key had inflated the tracked
\* size, leaving two entries
C8_Witness ==
    /\ last_op.op = "set_audio"
    /\ Len(audio_cache) = 2
    /\ Len(last_op.cache_before) = 2
    /\ last_op.key \notin { last_op.cache_before[k].key : k \in {1, 2} }
    /\ last_op.size_before > SumBytes(last_op.cache_before)

-----------------------------------------------------------------------------
(* Properties of the audio-stream selection                                *)

\* equality of language tags up to case, on the tags of the model
SameLanguage(a, b) == a = b \/ {a, b} = {"jpn", "JPN"}

\* C9: for the stream list the call reads and the language passed to
\* set_language: when the list holds an audio stream the call returns the
\* index of the first audio stream if no language is requested; else of the
\* first audio stream of that language (up to case) whose title does not
\* contain 'commentary'; else of the first audio stream of that language;
\* else of the first audio stream.  For [eng, jpn(commentary), jpn] a
\* request for jpn returns index 2 and a request for fre index 0.
C9_StreamSelection ==
    stream_result.called =>
        LET streams == stream_result.all_streams
            audio == { k \in DOMAIN streams :
                         streams[k].codec_type = "audio" }
            wanted == { k \in audio :
                          SameLanguage(streams[k].language, request) }
            clean == { k \in wanted : streams[k].title # "Commentary" }
            first(S) == CHOOSE k \in S : \A other \in S : k <= other
            expected == IF request = None THEN first(audio)
                        ELSE IF clean # {} THEN first(clean)
                        ELSE IF wanted # {} THEN first(wanted)
                        ELSE first(audio)
        IN  /\ audio # {} =>
                 stream_result.found /\ stream_result.index + 1 = expected
            /\ streams = << Stream("audio", "eng", ""),
                            Stream("audio", "jpn", "Commentary"),
                            Stream("audio", "jpn", "") >>
                 => /\ request = "jpn" => stream_result.index = 2
                    /\ request = "fre" => stream_result.index = 0

\* the upper-case request JPN picks the jpn stream behind a video stream and
\* a commentary track
C9_Witness ==
    /\ stream_result.called
    /\ request = "JPN"
    /\ stream_result.all_streams = << Stream("video", "jpn", ""),
                                      Stream("audio", "jpn", "Commentary"),
                                      Stream("audio", "jpn", "") >>
    /\ stream_result.found
    /\ stream_result.index = 2

\* C10: when get_stream_info reports at least one audio stream for the
\* file, get_audio_stream_index returns the index of one of them, whatever
\* the language requested.
C10_AudioStreamFoundWhenProbed ==
    (/\ stream_result.called
     /\ stream_result.probed
     /\ Len(stream_result.all_streams) >= 1)
        => /\ stream_result.found
           /\ stream_result.index \in 0..(Len(stream_result.all_streams) - 1)

-----------------------------------------------------------------------------
(* The matchers' comparison functions: compare_fingerprints of the         *)
(* Chromaprint, Peak and Invariant matchers and the MFCC matcher's cosine  *)
(* similarity.  A returned float is kept as the ratio num / den.           *)

\* Most 32-bit words in a Chromaprint fingerprint.
MaxWords == 2

RECURSIVE Pow2(_)
Pow2(n) == IF n = 0 THEN 1 ELSE 2 * Pow2(n - 1)

\* The words of a raw fingerprint are unsigned 32-bit integers, kept as
\* <<high half, low half>>: 0x00000000, 0xFFFFFFFF, 0xAAAAAAAA, 0x55555555,
\* 0x00000001, 0x80000000.
FingerprintWords == { <<0, 0>>, <<65535, 65535>>, <<43690, 43690>>,
                      <<21845, 21845>>, <<0, 1>>, <<32768, 0>> }

\* The fingerprints get_fingerprint returns: the non-empty word lists that
\* fp.split(',') and int() give back from the comma-joined string.
ChromaprintFingerprints ==
    UNION { [1..n -> FingerprintWords] : n \in 1..MaxWords }

\* v1 ^ v2 on the low n bits of two non-negative integers
RECURSIVE Xor(_, _, _)
Xor(v1, v2, n) ==
    IF n = 0 THEN 0
    ELSE (((v1 % 2) + (v2 % 2)) % 2) + 2 * Xor(v1 \div 2, v2 \div 2, n - 1)

\* bin(x).count('1')
RECURSIVE CountOnes(_)
CountOnes(x) == IF x = 0 THEN 0 ELSE (x % 2) + CountOnes(x \div 2)

\* lines 79-83: the loop over zip(arr1, arr2), giving [matches, total_bits]
RECURSIVE ChromaprintBits(_, _)
ChromaprintBits(arr1, arr2) ==
    IF arr1 = << >> \/ arr2 = << >>
    THEN [ matches |-> 0, total_bits |-> 0 ]
    ELSE LET rest == ChromaprintBits(Tail(arr1), Tail(arr2))
             ones == CountOnes(Xor(Head(arr1)[1], Head(arr2)[1], 16))
                       + CountOnes(Xor(Head(arr1)[2], Head(arr2)[2], 16))
         IN  [ matches |-> rest.matches + (32 - ones),
               total_bits |-> rest.total_bits + 32 ]

\* mutant: the longer sequence's length counts as the bits compared
ChromaprintCompareFingerprints_NoTruncate(f1, f2) ==
    LET bits == ChromaprintBits(f1, f2)
        longest == IF Len(f1) > Len(f2) THEN Len(f1) ELSE Len(f2)
    IN  IF longest = 0
        THEN [ num |-> 0, den |-> 1 ]
        ELSE [ num |-> bits.matches, den |-> 32 * longest ]

\* ChromaprintMatcher.compare_fingerprints, lines 76-84
ChromaprintCompareFingerprints(f1, f2) ==
    LET min_len == Min({ Len(f1), Len(f2) })
        arr1 == SubSeq(f1, 1, min_len)
        arr2 == SubSeq(f2, 1, min_len)
        bits == ChromaprintBits(arr1, arr2)
    IN  IF arr1 = << >>
        THEN [ num |-> 0, den |-> 1 ]
        ELSE IF bits.total_bits > 0
             THEN [ num |-> bits.matches, den |-> bits.total_bits ]
             ELSE [ num |-> 0, den |-> 1 ]

\* Everything but the comparison's result stays as it is.
compare_rest == << fp1, fp2, ref_features, remux_features, duration_cache,
                   stream_info_cache, total_comparisons, thread_vars,
                   run_vars, matcher_locals >>

\* self._matcher.compare_fingerprints(ref_fp, remux_fp) of the Chromaprint
\* matcher (pipeline.py:89)
chromaprint_compare_fingerprints ==
    /\ mode = "chromaprint"
    /\ fn_result.fn = None
    /\ LET r == ChromaprintCompareFingerprints(fp1, fp2)
       IN  fn_result' = [ fn |-> "chromaprint", num |-> r.num, den |-> r.den ]
    /\ UNCHANGED compare_rest
    /\ UNCHANGED pipeline_vars
    /\ UNCHANGED audio_vars
    /\ UNCHANGED stream_vars

\* Most distinct hashes in a landmark fingerprint, and the latest anchor time.
MaxHashes == 3
MaxTime == 2

\* The fingerprints of the Peak and Invariant matchers: dicts hash -> anchor
\* time; hashes are numbered.
LandmarkFingerprints ==
    UNION { [S -> 0..MaxTime] : S \in SUBSET (1..MaxHashes) }

\* A pair of fingerprints of 100 hashes each sharing 50 hashes, 40 of them
\* at offset 5 and 10 at offset 9.
ExampleFpA == [h \in 1..100 |-> h]
ExampleFpB == [h \in (1..50) \cup (101..150) |->
                 IF h <= 40 THEN h + 5 ELSE IF h <= 50 THEN h + 9 ELSE h]

Max(S) == CHOOSE x \in S : \A y \in S : x >= y

\* mutant: the chain is measured against the shared hashes
LandmarkCompareFingerprints_OverShared(f1, f2) ==
    LET matching_hashes == DOMAIN f1 \cap DOMAIN f2
        offsets == { f2[h] - f1[h] : h \in matching_hashes }
        time_offsets == [o \in offsets |->
            Cardinality({ h \in matching_hashes : f2[h] - f1[h] = o })]
    IN  IF matching_hashes = {}
        THEN [ num |-> 0, den |-> 1 ]
        ELSE [ num |-> Max({ time_offsets[o] : o \in offsets }),
               den |-> Cardinality(matching_hashes) ]

\* PeakMatcher.compare_fingerprints (peak_matcher.py:105-129) and
\* InvariantMatcher.compare_fingerprints (invariant_matcher.py:108-124)
LandmarkCompareFingerprints(f1, f2) ==
    LET matching_hashes == DOMAIN f1 \cap DOMAIN f2
        offsets == { f2[h] - f1[h] : h \in matching_hashes }
        time_offsets == [o \in offsets |->
            Cardinality({ h \in matching_hashes : f2[h] - f1[h] = o })]
        total_hashes == Min({ Cardinality(DOMAIN f1), Cardinality(DOMAIN f2) })
    IN  IF matching_hashes = {}
        THEN [ num |-> 0, den |-> 1 ]
        ELSE IF offsets = {}
             THEN [ num |-> 0, den |-> 1 ]
             ELSE IF total_hashes > 0
                  THEN [ num |-> Max({ time_offsets[o] : o \in offsets }),
                         den |-> total_hashes ]
                  ELSE [ num |-> 0, den |-> 1 ]

\* self._matcher.compare_fingerprints(ref_fp, remux_fp) of the Peak or the
\* Invariant matcher (pipeline.py:89)
landmark_compare_fingerprints ==
    /\ mode \in { "peak_matcher", "invariant_matcher" }
    /\ fn_result.fn = None
    /\ LET r == LandmarkCompareFingerprints(fp1, fp2)
       IN  fn_result' = [ fn |-> mode, num |-> r.num, den |-> r.den ]
    /\ UNCHANGED compare_rest
    /\ UNCHANGED pipeline_vars
    /\ UNCHANGED audio_vars
    /\ UNCHANGED stream_vars

\* Coefficients of an MFCC feature vector and their largest magnitude.
FeatureDim == 2
MaxCoef == 2

\* The mean MFCC vectors _get_mfcc_features returns; << >> stands for None
\* (no audio stream, failed extraction).
FeatureVectors == [1..FeatureDim -> (-MaxCoef)..MaxCoef] \cup { << >> }

RECURSIVE Dot(_, _)
Dot(x, y) == IF x = << >> THEN 0 ELSE Head(x) * Head(y) + Dot(Tail(x), Tail(y))

\* the integer part of a square root, by bisection on lo..hi
RECURSIVE ISqrtIn(_, _, _)
ISqrtIn(n, lo, hi) ==
    IF lo = hi THEN lo
    ELSE LET mid == (lo + hi + 1) \div 2
         IN  IF mid * mid <= n THEN ISqrtIn(n, mid, hi)
             ELSE ISqrtIn(n, lo, mid - 1)

ISqrt(n) == ISqrtIn(n, 0, 46340)

\* _cosine_similarity (mfcc.py:58-64), in hundredths: 0.0 when a norm is 0,
\* else dot_product / (norm_a * norm_b)
CosineSimilarity(x, y) ==
    LET dot_product == Dot(x, y)
        norm_sq_a == Dot(x, x)
        norm_sq_b == Dot(y, y)
    IN  IF norm_sq_a = 0 \/ norm_sq_b = 0
        THEN 0
        ELSE (10000 * dot_product) \div ISqrt(10000 * norm_sq_a * norm_sq_b)

\* MFCCMatcher.compare (mfcc.py:18-24): 0.0 when a feature vector is missing,
\* else the cosine similarity
mfcc_compare ==
    /\ mode = "mfcc"
    /\ fn_result.fn = None
    /\ fn_result' =
         [ fn |-> "mfcc",
           num |-> IF ref_features = << >> \/ remux_features = << >>
                   THEN 0
                   ELSE CosineSimilarity(ref_features, remux_features),
           den |-> 100 ]
    /\ UNCHANGED compare_rest
    /\ UNCHANGED pipeline_vars
    /\ UNCHANGED audio_vars
    /\ UNCHANGED stream_vars

\* One matcher, its inputs, and no call made yet.
InitCompare ==
    /\ mode \in { "chromaprint", "peak_matcher", "invariant_matcher", "mfcc" }
    /\ language = None
    /\ threshold = DefaultThreshold
    /\ running = FALSE
    /\ matcher = None
    /\ matcher_running = FALSE
    /\ references = << >>
    /\ remuxes = << >>
    /\ pc = "idle"
    /\ ref_i = 1
    /\ remux_j = 1
    /\ best_matches = << >>
    /\ used_references = {}
    /\ comparisons_done = 0
    /\ files_done = 0
    /\ ref_fingerprints = << >>
    /\ remux_fingerprints = << >>
    /\ events = << >>
    /\ duration_cache = << >>
    /\ stream_info_cache = << >>
    /\ audio_cache = << >>
    /\ audio_cache_size = 0
    /\ max_audio_bytes = MaxAudioMb
    /\ file_streams = << >>
    /\ request = None
    /\ stream_result = NoResult
    /\ stop_requested = FALSE
    /\ steps = 0
    /\ top_scored = << >>
    /\ visited = {}
    /\ cache_ops = << >>
    /\ last_op = NoOp
    /\ fn_result = NoCall
    /\ total_comparisons = 0
    /\ NoThreads
    /\ FirstRun
    /\ NoMatcherCall
    /\ IF mode = "chromaprint"
       THEN /\ fp1 \in ChromaprintFingerprints
            /\ fp2 \in ChromaprintFingerprints
       ELSE IF mode = "mfcc"
            THEN fp1 = << >> /\ fp2 = << >>
            ELSE \/ fp1 \in LandmarkFingerprints /\ fp2 \in LandmarkFingerprints
                 \/ fp1 = ExampleFpA /\ fp2 = ExampleFpB
    /\ IF mode = "mfcc"
       THEN /\ ref_features \in FeatureVectors
            /\ remux_features \in FeatureVectors
       ELSE ref_features = << >> /\ remux_features = << >>

NextCompare ==
    \/ chromaprint_compare_fingerprints
    \/ landmark_compare_fingerprints
    \/ mfcc_compare

SpecCompare == InitCompare /\ [][NextCompare]_vars

-----------------------------------------------------------------------------
(* Properties of the comparison functions                                  *)

\* bit i (0 = lowest) of a 32-bit word
BitAt(w, i) ==
    IF i < 16 THEN (w[2] \div Pow2(i)) % 2 ELSE (w[1] \div Pow2(i - 16)) % 2

\* the (word, bit) positions at which the first n words differ
DifferingBits(f1, f2, n) ==
    { p \in (1..n) \X (0..31) : BitAt(f1[p[1]], p[2]) # BitAt(f2[p[1]], p[2]) }

\* C11: Chromaprint compare_fingerprints on two non-empty integer sequences
\* returns 1 - (differing bits of the words) / (32 x words compared), the
\* words compared being those of both sequences up to the shorter length:
\* identical sequences give 1.0, sequences whose words differ in every bit
\* give 0.0, and the result is in [0,1].
C11_ChromaprintSimilarity ==
    fn_result.fn = "chromaprint" =>
        LET n == IF Len(fp1) < Len(fp2) THEN Len(fp1) ELSE Len(fp2)
            differing == Cardinality(DifferingBits(fp1, fp2, n))
        IN  /\ fn_result.den > 0
            /\ fn_result.num * (32 * n)
                 = (32 * n - differing) * fn_result.den
            /\ fp1 = fp2 => fn_result.num = fn_result.den
            /\ differing = 32 * n => fn_result.num = 0
            /\ 0 <= fn_result.num /\ fn_result.num <= fn_result.den

\* sequences of different lengths whose compared words agree in part
C11_Witness ==
    /\ fn_result.fn = "chromaprint"
    /\ Len(fp1) = 1
    /\ Len(fp2) = 2
    /\ fp1[1] = <<43690, 43690>>
    /\ fp2[1] = <<65535, 65535>>
    /\ 2 * fn_result.num = fn_result.den

\* C12: landmark compare_fingerprints (Peak and Invariant) returns the
\* largest number of shared hashes having one common offset fp2[h] - fp1[h],
\* divided by min(|fp1|, |fp2|); 0 when no hash is shared; always within
\* [0,1]; and 0.4 for 50 shared hashes, 40 at one offset and 10 at another,
\* with fingerprints of 100 hashes.
C12_LandmarkConfidence ==
    fn_result.fn \in { "peak_matcher", "invariant_matcher" } =>
        LET shared == DOMAIN fp1 \cap DOMAIN fp2
            chain(o) == Cardinality({ h \in shared : fp2[h] - fp1[h] = o })
            smaller == IF Cardinality(DOMAIN fp1) < Cardinality(DOMAIN fp2)
                       THEN Cardinality(DOMAIN fp1)
                       ELSE Cardinality(DOMAIN fp2)
        IN  /\ fn_result.den > 0
            /\ shared = {} => fn_result.num = 0
            /\ shared # {} =>
                 /\ \E h \in shared :
                      chain(fp2[h] - fp1[h]) * fn_result.den
                        = fn_result.num * smaller
                 /\ \A h \in shared :
                      chain(fp2[h] - fp1[h]) * fn_result.den
                        <= fn_result.num * smaller
            /\ 0 <= fn_result.num /\ fn_result.num <= fn_result.den
            /\ (fp1 = ExampleFpA /\ fp2 = ExampleFpB)
                 => 10 * fn_result.num = 4 * fn_result.den

\* the 50-shared-hash pair has been compared
C12_Witness ==
    /\ fn_result.fn \in { "peak_matcher", "invariant_matcher" }
    /\ fp1 = ExampleFpA
    /\ fp2 = ExampleFpB
    /\ fn_result.num = 40

\* C13: every score a matcher's comparison returns is a confidence in [0,1]
\* or exactly the -1 failure sentinel.
C13_ScoreInUnitRangeOrSentinel ==
    fn_result.fn # None =>
        \/ 0 <= fn_result.num /\ fn_result.num <= fn_result.den
        \/ fn_result.num = - fn_result.den

-----------------------------------------------------------------------------
(* Further properties of the event stream                                  *)

MatcherModes == { "correlation", "chromaprint", "peak_matcher",
                  "invariant_matcher", "mfcc", "phash", "scene" }

\* C15: when the mode names no matcher, every step of match() leaves the
\* caches, the comparison records and the fingerprints untouched and emits
\* no match event; the run ends at its second step with exactly one event,
\* the progress event 'Invalid matcher mode' with value 0.
C15_InvalidModeAborts ==
    [][ mode \notin MatcherModes =>
          /\ duration_cache' = duration_cache
          /\ stream_info_cache' = stream_info_cache
          /\ audio_cache' = audio_cache
          /\ visited' = {}
          /\ ref_fingerprints' = << >> /\ remux_fingerprints' = << >>
          /\ comparisons_done' = 0 /\ files_done' = 0
          /\ pc' \in { "get_matcher", "done" }
          /\ pc' = "get_matcher" => events' = << >>
          /\ pc' = "done" =>
               events' = << ProgressEvent("Invalid matcher mode", 0,
                                          None, None) >> ]_vars

\* a run for the mode "panako" over two references and two remuxes, some of
\* them with a cached duration, at its end
C15_Witness ==
    /\ mode = "panako"
    /\ pc = "done"
    /\ Len(references) = 2 /\ Len(remuxes) = 2
    /\ duration_cache # << >>
    /\ Len(events) = 1
    /\ events[1].message = "Invalid matcher mode"

\* C16: a failing file or pair never aborts the run: a run that was not
\* stopped and has ended has processed every pair (exhaustive strategy) and
\* has emitted exactly one match event for every remux.
C16_FailuresNeverAbort ==
    (ValidMode /\ ~stop_requested /\ pc # "idle" /\ ~ENABLED MatchStep) =>
        /\ \A m \in Range(remuxes) :
               Cardinality(RemuxMatches(events, m)) = 1
        /\ Exhaustive =>
               Cardinality({ << v.ref, v.remux >> : v \in visited })
                   = Len(references) * Len(remuxes)

\* C17: the exhaustive strategy does not enforce exclusivity: in a completed
\* run, two remuxes whose highest score (>= 0) is against one and the same
\* reference both get a match event naming that reference.
C17_NoExclusivity ==
    (Completed /\ Exhaustive) =>
        \A m1, m2 \in Range(remuxes) : \A r \in Range(references) :
            (/\ m1 # m2
             /\ \E s \in 0..200 : top_scored[m1] = { << r, s >> }
             /\ \E s \in 0..200 : top_scored[m2] = { << r, s >> })
                => /\ \E k \in RemuxMatches(events, m1) :
                          events[k].reference_path = r
                   /\ \E k \in RemuxMatches(events, m2) :
                          events[k].reference_path = r

\* two match events of a completed run with the same reference_path, above
\* the threshold, while another reference goes unused
C17_Witness ==
    /\ Completed /\ Exhaustive
    /\ Len(references) = 2 /\ Len(remuxes) = 2
    /\ \E j, k \in DOMAIN events :
          /\ j < k
          /\ events[j].type = "match" /\ events[k].type = "match"
          /\ events[j].remux_path = "rmx1" /\ events[k].remux_path = "rmx2"
          /\ events[j].reference_path = "ref1"
          /\ events[k].reference_path = "ref1"
          /\ events[j].confidence = 90 /\ events[k].confidence = 90
    /\ UnusedEvents(events, "ref2") # {}

-----------------------------------------------------------------------------
(* The progress loop of _run_exhaustive_compare taken alone: the pairs are *)
(* visited and counted, no comparison is made, and stop() may be called.   *)

\* Most pairs of the loop.
MaxTotal == 50

progress_rest == << mode, language, threshold, matcher, references, remuxes,
                    ref_i, remux_j, best_matches, used_references,
                    files_done, ref_fingerprints, remux_fingerprints,
                    duration_cache, stream_info_cache, steps, top_scored,
                    visited, total_comparisons >>

\* lines 113-120: the next pair is counted and its progress event yielded
progress_pair ==
    /\ pc = "ex_inner"
    /\ running
    /\ comparisons_done < total_comparisons
    /\ comparisons_done' = comparisons_done + 1
    /\ events' = Append(events,
           ProgressEvent("Comparing",
               Progress(comparisons_done + 1, total_comparisons, 100),
               None, None))
    /\ UNCHANGED << pc, running, matcher_running, stop_requested >>
    /\ UNCHANGED progress_rest
    /\ UNCHANGED << fp1, fp2, ref_features, remux_features, fn_result,
                    thread_vars, run_vars, matcher_locals >>
    /\ UNCHANGED audio_vars
    /\ UNCHANGED stream_vars

\* stop() while the loop runs: both loops break at their next check
progress_stop ==
    /\ pc = "ex_inner"
    /\ running
    /\ running' = FALSE
    /\ matcher_running' = FALSE
    /\ stop_requested' = TRUE
    /\ UNCHANGED << pc, comparisons_done, events >>
    /\ UNCHANGED progress_rest
    /\ UNCHANGED << fp1, fp2, ref_features, remux_features, fn_result,
                    thread_vars, run_vars, matcher_locals >>
    /\ UNCHANGED audio_vars
    /\ UNCHANGED stream_vars

\* line 57: the loops are left, the run ends
progress_complete ==
    /\ pc = "ex_inner"
    /\ ~running \/ comparisons_done = total_comparisons
    /\ events' = Append(events,
           ProgressEvent("Matching complete", 100, None, None))
    /\ pc' = "done"
    /\ UNCHANGED << running, comparisons_done, matcher_running,
                    stop_requested >>
    /\ UNCHANGED progress_rest
    /\ UNCHANGED << fp1, fp2, ref_features, remux_features, fn_result,
                    thread_vars, run_vars, matcher_locals >>
    /\ UNCHANGED audio_vars
    /\ UNCHANGED stream_vars

InitProgress ==
    /\ mode = "correlation"
    /\ language = None
    /\ threshold = DefaultThreshold
    /\ running = TRUE
    /\ matcher = "correlation"
    /\ matcher_running = TRUE
    /\ references = << >>
    /\ remuxes = << >>
    /\ pc = "ex_inner"
    /\ ref_i = 1
    /\ remux_j = 1
    /\ best_matches = << >>
    /\ used_references = {}
    /\ comparisons_done = 0
    /\ files_done = 0
    /\ ref_fingerprints = << >>
    /\ remux_fingerprints = << >>
    /\ events = << ProgressEvent("Starting", 0, None, None) >>
    /\ duration_cache = << >>
    /\ stream_info_cache = << >>
    /\ audio_cache = << >>
    /\ audio_cache_size = 0
    /\ max_audio_bytes = MaxAudioMb
    /\ file_streams = << >>
    /\ request = None
    /\ stream_result = NoResult
    /\ stop_requested = FALSE
    /\ steps = 0
    /\ top_scored = << >>
    /\ visited = {}
    /\ cache_ops = << >>
    /\ last_op = NoOp
    /\ fp1 = << >>
    /\ fp2 = << >>
    /\ ref_features = << >>
    /\ remux_features = << >>
    /\ fn_result = NoCall
    /\ total_comparisons \in 1..MaxTotal
    /\ NoThreads
    /\ run = 1
    /\ matcher_run = 1
    /\ stale_stop = FALSE
    /\ NoMatcherCall

NextProgress ==
    \/ progress_pair
    \/ progress_stop
    \/ progress_complete

SpecProgress == InitProgress /\ [][NextProgress]_vars

\* positions of the progress events
ProgressEvents(evs) == { k \in DOMAIN evs : evs[k].type = "progress" }

\* the "Comparing" events among the first k events
PairsReported(evs, k) ==
    Cardinality({ i \in 1..k : evs[i].message = "Comparing" })

\* the percentages never decrease, stay within 0..100, and a run that has
\* ended reported 100 last
ProgressSteady ==
    LET progress == ProgressEvents(events)
    IN  /\ \A i \in progress :
              /\ events[i].value \in 0..100
              /\ \A j \in progress :
                    i < j => events[i].value <= events[j].value
        /\ pc = "done" =>
              /\ progress # {}
              /\ events[Max(progress)].value = 100

IsRemuxEvent(e) == e.type = "match" /\ e.remux_path # None

IsUnusedEvent(e) == e.type = "match" /\ e.remux_path = None

PositionIn(s, x) == CHOOSE k \in DOMAIN s : s[k] = x

\* C19: in a completed run the match events of the remux files appear in the
\* order of the remux list, whatever their confidences, and all of them come
\* before the unused-reference events, which appear in the order of the
\* reference list.
C19_EventsInListOrder ==
    Completed =>
        LET remux_events == SelectSeq(events, IsRemuxEvent)
            unused_events == SelectSeq(events, IsUnusedEvent)
        IN  /\ [ k \in DOMAIN remux_events |-> remux_events[k].remux_path ]
                  = remuxes
            /\ \A i, j \in DOMAIN events :
                  IsRemuxEvent(events[i]) /\ IsUnusedEvent(events[j])
                      => i < j
            /\ \A i, j \in DOMAIN unused_events :
                  i < j =>
                      /\ unused_events[i].reference_path \in Range(references)
                      /\ unused_events[j].reference_path \in Range(references)
                      /\ PositionIn(references,
                                    unused_events[i].reference_path)
                           < PositionIn(references,
                                        unused_events[j].reference_path)

\* a fingerprint-batch run over two references and two remuxes: rmx1 had no
\* fingerprint (confidence -1), rmx2 scored 0 against ref1; the events are
\* rmx1's, rmx2's, then ref1 unused, ref2 unused
C19_Witness ==
    /\ Completed
    /\ mode = "chromaprint"
    /\ references = << "ref1", "ref2" >>
    /\ remuxes = << "rmx1", "rmx2" >>
    /\ LET n == Len(events)
       IN  /\ n >= 5
           /\ events[n - 4] = BatchMatchEvent("rmx1",
                                  [score |-> -100, ref |-> None])
           /\ events[n - 3] = BatchMatchEvent("rmx2",
                                  [score |-> 0, ref |-> "ref1"])
           /\ events[n - 2] = UnusedEvent("ref1")
           /\ events[n - 1] = UnusedEvent("ref2")

\* C20: in a completed fingerprint-batch run every remux has exactly one
\* match event. When the remux has a fingerprint and some reference has one,
\* the remux was compared with every fingerprinted reference and the event
\* names a reference that scored highest, with that score as confidence;
\* when the remux has no fingerprint or no reference has one, the event has
\* no reference, confidence -1 and info 'Fingerprint failed'.
C20_BatchBestMatch ==
    (Completed /\ mode \in audio_fingerprinters) =>
        \A m \in Range(remuxes) :
            /\ Cardinality(RemuxMatches(events, m)) = 1
            /\ \A k \in RemuxMatches(events, m) :
                 IF m \in Range(remux_fingerprints) /\ ref_fingerprints # << >>
                 THEN /\ \A r \in Range(ref_fingerprints) :
                           \E v \in visited :
                               v.ref = r /\ v.remux = m /\ v.compared
                      /\ \A v \in visited :
                           v.remux = m => v.ref \in Range(ref_fingerprints)
                      /\ events[k].reference_path \in Range(ref_fingerprints)
                      /\ << events[k].reference_path, events[k].confidence >>
                             \in top_scored[m]
                      /\ \A t \in top_scored[m] : t[2] = events[k].confidence
                 ELSE /\ events[k].reference_path = None
                      /\ events[k].confidence = -100
                      /\ events[k].info = "Fingerprint failed"

\* two references with fingerprints and two remuxes: rmx1 scored 75 against
\* ref1 and 90 against ref2 and is matched to ref2; rmx2 has no fingerprint
C20_Witness ==
    /\ Completed
    /\ mode = "peak_matcher"
    /\ ref_fingerprints = << "ref1", "ref2" >>
    /\ remux_fingerprints = << "rmx1" >>
    /\ remuxes = << "rmx1", "rmx2" >>
    /\ top_scored["rmx1"] = { << "ref2", 90 >> }
    /\ \E k \in RemuxMatches(events, "rmx1") :
         events[k].reference_path = "ref2" /\ events[k].confidence = 90
    /\ \E k \in RemuxMatches(events, "rmx2") :
         events[k].info = "Fingerprint failed"

-----------------------------------------------------------------------------
(* MediaCache called from several threads: set_audio, set_duration and     *)
(* clear run "with self._lock", one statement a step; get_audio takes no   *)
(* lock (cache.py:61-64)                                                   *)

\* Most mutations called in one behaviour.
MaxLockOps == 3

\* Keys and buffer sizes (MiB) of the concurrent calls: two buffers of 4 fit
\* the budget together, any other two do not.
LockKeys == { "A", "B" }
LockSizes == { 4, 8 }

CriticalPcs == { "sa_check", "ev_test", "ev_pop", "ev_sub", "sa_put",
                 "sa_add", "cl_duration", "cl_stream", "cl_audio",
                 "cl_size", "sd_put", "release" }

thread_rest == << max_audio_bytes, last_op, stream_vars, fp1, fp2,
                  ref_features, remux_features, fn_result,
                  total_comparisons, run_vars, matcher_locals >>

\* the thread t moves to pc p
Goto(t, p) == threads' = [threads EXCEPT ![t].pc = p]

\* mutations called so far: those that took the lock and those waiting for it
Called ==
    Len(cache_ops) + Cardinality({ t \in Threads : threads[t].pc = "acquire" })

\* a thread calls set_audio, set_duration or clear: it is at the "with"
call_mutation(t) ==
    /\ threads[t].pc = "idle"
    /\ Called < MaxLockOps
    /\ \E c \in { [op |-> "set_audio", key |-> k, nbytes |-> n] :
                      k \in LockKeys, n \in LockSizes }
                \cup { [op |-> "set_duration", key |-> RefPaths[1],
                        nbytes |-> 0],
                       [op |-> "clear", key |-> None, nbytes |-> 0] } :
         threads' = [threads EXCEPT ![t] =
                        [@ EXCEPT !.pc = "acquire", !.op = c.op,
                                  !.key = c.key, !.nbytes = c.nbytes]]
    /\ UNCHANGED << lock, audio_cache, audio_cache_size, cache_ops,
                    duration_cache, stream_info_cache >>
    /\ UNCHANGED pipeline_vars
    /\ UNCHANGED thread_rest

\* mutant: the lock never blocks
LockFree_Always(l) == TRUE

\* with self._lock: entered when no thread holds the lock
LockFree(l) == l = None

\* lines 33, 49, 68: the lock is taken
acquire(t) ==
    /\ threads[t].pc = "acquire"
    /\ LockFree(lock)
    /\ lock' = t
    /\ cache_ops' = Append(cache_ops,
           [ op |-> threads[t].op, key |-> threads[t].key,
             nbytes |-> threads[t].nbytes ])
    /\ Goto(t, IF threads[t].op = "set_audio" THEN "sa_check"
               ELSE IF threads[t].op = "clear" THEN "cl_duration"
               ELSE "sd_put")
    /\ UNCHANGED << audio_cache, audio_cache_size, duration_cache,
                    stream_info_cache >>
    /\ UNCHANGED pipeline_vars
    /\ UNCHANGED thread_rest

\* lines 72-74: if self._audio_cache_size + audio_bytes > self.max_audio_bytes
sa_check(t) ==
    /\ threads[t].pc = "sa_check"
    /\ Goto(t, IF audio_cache_size + threads[t].nbytes > max_audio_bytes
               THEN "ev_test" ELSE "sa_put")
    /\ UNCHANGED << lock, audio_cache, audio_cache_size, cache_ops,
                    duration_cache, stream_info_cache >>
    /\ UNCHANGED pipeline_vars
    /\ UNCHANGED thread_rest

\* line 82: the condition of _evict_audio's loop
ev_test(t) ==
    /\ threads[t].pc = "ev_test"
    /\ Goto(t, IF /\ audio_cache # << >>
                  /\ audio_cache_size + threads[t].nbytes > max_audio_bytes
               THEN "ev_pop" ELSE "sa_put")
    /\ UNCHANGED << lock, audio_cache, audio_cache_size, cache_ops,
                    duration_cache, stream_info_cache >>
    /\ UNCHANGED pipeline_vars
    /\ UNCHANGED thread_rest

\* lines 83-84: the first key of the dict is popped
ev_pop(t) ==
    /\ threads[t].pc = "ev_pop"
    /\ IF audio_cache # << >>
       THEN /\ audio_cache' = Tail(audio_cache)
            /\ threads' = [threads EXCEPT ![t] =
                              [@ EXCEPT !.pc = "ev_sub",
                                        !.popped = Head(audio_cache).nbytes]]
       ELSE \* next(iter({})) raises StopIteration: the call ends, the
            \* "with" releases the lock
            /\ Goto(t, "release")
            /\ UNCHANGED audio_cache
    /\ UNCHANGED << lock, audio_cache_size, cache_ops, duration_cache,
                    stream_info_cache >>
    /\ UNCHANGED pipeline_vars
    /\ UNCHANGED thread_rest

\* line 85: self._audio_cache_size -= audio.nbytes
ev_sub(t) ==
    /\ threads[t].pc = "ev_sub"
    /\ audio_cache_size' = audio_cache_size - threads[t].popped
    /\ Goto(t, "ev_test")
    /\ UNCHANGED << lock, audio_cache, cache_ops, duration_cache,
                    stream_info_cache >>
    /\ UNCHANGED pipeline_vars
    /\ UNCHANGED thread_rest

\* line 76: self._audio_cache[key] = audio
sa_put(t) ==
    /\ threads[t].pc = "sa_put"
    /\ audio_cache' = PutAudio(audio_cache, threads[t].key, threads[t].nbytes)
    /\ Goto(t, "sa_add")
    /\ UNCHANGED << lock, audio_cache_size, cache_ops, duration_cache,
                    stream_info_cache >>
    /\ UNCHANGED pipeline_vars
    /\ UNCHANGED thread_rest

\* line 77: self._audio_cache_size += audio_bytes
sa_add(t) ==
    /\ threads[t].pc = "sa_add"
    /\ audio_cache_size' = audio_cache_size + threads[t].nbytes
    /\ Goto(t, "release")
    /\ UNCHANGED << lock, audio_cache, cache_ops, duration_cache,
                    stream_info_cache >>
    /\ UNCHANGED pipeline_vars
    /\ UNCHANGED thread_rest

\* line 50: self._duration_cache[path] = duration
sd_put(t) ==
    /\ threads[t].pc = "sd_put"
    /\ duration_cache' = set_duration(duration_cache, {threads[t].key})
    /\ Goto(t, "release")
    /\ UNCHANGED << lock, audio_cache, audio_cache_size, cache_ops,
                    stream_info_cache >>
    /\ UNCHANGED pipeline_vars
    /\ UNCHANGED thread_rest

\* lines 34-37 of clear, a statement each (lines 38-41 clear the caches this
\* model does not hold)
cl_step(t) ==
    /\ threads[t].pc \in { "cl_duration", "cl_stream", "cl_audio", "cl_size" }
    /\ duration_cache' = IF threads[t].pc = "cl_duration" THEN << >>
                         ELSE duration_cache
    /\ stream_info_cache' = IF threads[t].pc = "cl_stream" THEN << >>
                            ELSE stream_info_cache
    /\ audio_cache' = IF threads[t].pc = "cl_audio" THEN << >>
                      ELSE audio_cache
    /\ audio_cache_size' = IF threads[t].pc = "cl_size" THEN 0
                           ELSE audio_cache_size
    /\ Goto(t, CASE threads[t].pc = "cl_duration" -> "cl_stream"
                 [] threads[t].pc = "cl_stream" -> "cl_audio"
                 [] threads[t].pc = "cl_audio" -> "cl_size"
                 [] OTHER -> "release")
    /\ UNCHANGED << lock, cache_ops >>
    /\ UNCHANGED pipeline_vars
    /\ UNCHANGED thread_rest

\* the end of the "with" block: the lock is released, the call returns
release(t) ==
    /\ threads[t].pc = "release"
    /\ lock' = None
    /\ Goto(t, "idle")
    /\ UNCHANGED << audio_cache, audio_cache_size, cache_ops, duration_cache,
                    stream_info_cache >>
    /\ UNCHANGED pipeline_vars
    /\ UNCHANGED thread_rest

\* self._audio_cache.get(key): the buffer held for the key (its size stands
\* for it), 0 for None
AudioGet(cache, key) ==
    IF \E k \in DOMAIN cache : cache[k].key = key
    THEN cache[CHOOSE k \in DOMAIN cache : cache[k].key = key].nbytes
    ELSE 0

\* get_audio, lines 61-64: no lock is taken
get_audio(t) ==
    /\ threads[t].pc = "idle"
    /\ \E k \in LockKeys :
         threads' = [threads EXCEPT ![t].got =
                        [ key |-> k, value |-> AudioGet(audio_cache, k),
                          concurrent |-> lock # None ]]
    /\ UNCHANGED << lock, audio_cache, audio_cache_size, cache_ops,
                    duration_cache, stream_info_cache >>
    /\ UNCHANGED pipeline_vars
    /\ UNCHANGED thread_rest

InitThreads == InitCache

NextThreads ==
    \E t \in Threads :
        \/ call_mutation(t)
        \/ acquire(t)
        \/ sa_check(t)
        \/ ev_test(t)
        \/ ev_pop(t)
        \/ ev_sub(t)
        \/ sa_put(t)
        \/ sa_add(t)
        \/ sd_put(t)
        \/ cl_step(t)
        \/ release(t)
        \/ get_audio(t)

SpecThreads == InitThreads /\ [][NextThreads]_vars

\* one mutation executed alone on the cache state st
ApplyMutation(st, o) ==
    IF o.op = "set_audio"
    THEN LET after == SetAudioResult(st.audio, st.size, o.key, o.nbytes,
                                     max_audio_bytes)
         IN  [ audio |-> after.cache, size |-> after.size,
               duration |-> st.duration, stream_info |-> st.stream_info ]
    ELSE IF o.op = "clear"
    THEN [ audio |-> << >>, size |-> 0, duration |-> << >>,
           stream_info |-> << >> ]
    ELSE [st EXCEPT !.duration = set_duration(@, {o.key})]

RECURSIVE Sequentially(_, _)
\* the mutations ops executed one after the other from the state st
Sequentially(ops, st) ==
    IF ops = << >> THEN st
    ELSE Sequentially(Tail(ops), ApplyMutation(st, Head(ops)))

EmptyCache == [ audio |-> << >>, size |-> 0, duration |-> << >>,
                stream_info |-> << >> ]

\* C21: the mutations of concurrent callers take effect one at a time: at
\* most one thread is inside a "with self._lock" block, and it holds the
\* lock; whenever no mutation is in progress the cache is in the state that
\* executing the mutations called so far one after the other, in the order
\* they took the lock, produces; and a get_audio, concurrent with a mutation
\* or not, returns None or a buffer that a set_audio call stored for its key.
C21_MutationsSerialized ==
    /\ \A t \in Threads : threads[t].pc \in CriticalPcs => lock = t
    /\ lock = None =>
          [ audio |-> audio_cache, size |-> audio_cache_size,
            duration |-> duration_cache, stream_info |-> stream_info_cache ]
              = Sequentially(cache_ops, EmptyCache)
    /\ \A t \in Threads :
          LET g == threads[t].got
          IN  (g.key # None /\ g.value # 0) =>
                  \E k \in DOMAIN cache_ops :
                      /\ cache_ops[k].op = "set_audio"
                      /\ cache_ops[k].key = g.key
                      /\ cache_ops[k].nbytes = g.value

\* t1 is in set_audio, between popping an entry and subtracting its size,
\* while t2 waits for the lock with a clear; t2's last get_audio ran while a
\* mutation held the lock and returned a buffer
C21_Witness ==
    /\ lock = "t1"
    /\ threads["t1"].pc = "ev_sub"
    /\ threads["t2"].pc = "acquire"
    /\ threads["t2"].op = "clear"
    /\ threads["t2"].got.concurrent
    /\ threads["t2"].got.value # 0

-----------------------------------------------------------------------------
(* Several runs of one pipeline: match() is called again once the earlier  *)
(* generator has ended or was abandoned by its consumer after a stop()     *)
(* (main.py:47-49), and stop() may also be called between two runs         *)

\* Most match() calls on one pipeline, and most pairs of their lists.
MaxRuns == 2
MaxRunPairs == 2

\* stop() called when the earlier run is over: lines 38-40
stop_after ==
    /\ pc \in { "done", "raised" }
    /\ ~stale_stop
    /\ running' = FALSE
    /\ matcher_running' = IF matcher # None THEN FALSE ELSE matcher_running
    /\ stale_stop' = TRUE
    /\ UNCHANGED << mode, language, threshold, matcher, references, remuxes,
                    pc, ref_i, remux_j, best_matches, used_references,
                    comparisons_done, files_done, ref_fingerprints,
                    remux_fingerprints, events, duration_cache,
                    stop_requested, steps, top_scored, visited >>
    /\ UNCHANGED << stream_info_cache, audio_vars, stream_vars, fp1, fp2,
                    ref_features, remux_features, fn_result,
                    total_comparisons, thread_vars, run, matcher_run,
                    matcher_locals >>

\* the front end sets the mode and calls match() again on the same pipeline
\* (main.py:261-269): a new generator, with new locals and no event yet
MatchAgain ==
    /\ pc \in { "done", "raised" } \/ stop_requested
    /\ run < MaxRuns
    /\ run' = run + 1
    /\ stale_stop' = (stale_stop \/ stop_requested)
    /\ mode' \in Modes
    /\ pc' = "idle"
    /\ ref_i' = 1
    /\ remux_j' = 1
    /\ best_matches' = << >>
    /\ used_references' = {}
    /\ comparisons_done' = 0
    /\ files_done' = 0
    /\ ref_fingerprints' = << >>
    /\ remux_fingerprints' = << >>
    /\ events' = << >>
    /\ stop_requested' = FALSE
    /\ steps' = 0
    /\ top_scored' = [m \in Range(remuxes) |-> {}]
    /\ visited' = {}
    /\ UNCHANGED << language, threshold, running, matcher, matcher_running,
                    references, remuxes, duration_cache, matcher_run >>
    /\ UNCHANGED << stream_info_cache, audio_vars, stream_vars, fp1, fp2,
                    ref_features, remux_features, fn_result,
                    total_comparisons, thread_vars, matcher_locals >>

InitRuns == InitUpTo(MaxRunPairs)

NextRuns ==
    \/ MatchStep
    \/ stop
    \/ stop_after
    \/ MatchAgain

SpecRuns == InitRuns /\ [][NextRuns]_vars

\* C22: whatever an earlier run or a stop() during or after it left behind,
\* a run that is past line 44 in a mode that selects a matcher uses a matcher
\* built by this very run, and while the run lasts and no stop() is called
\* during it the pipeline's and the matcher's running flags are set; a run
\* that ends at line 57 without a stop() during it ends
\* having visited every pair (compared every pair of fingerprints in the
\* batch strategy) and with one match event for every remux.
C22_FreshMatcherPerRun ==
    /\ (ValidMode /\ pc \notin { "idle", "get_matcher" }) =>
          /\ matcher = mode
          /\ matcher_run = run
          /\ (InRun /\ ~stop_requested) => (running /\ matcher_running)
    /\ (pc = "done" /\ ValidMode /\ ~stop_requested) =>
          /\ \A m \in Range(remuxes) :
                Cardinality(RemuxMatches(events, m)) = 1
          /\ Exhaustive =>
                \A r \in Range(references) : \A m \in Range(remuxes) :
                    \E v \in visited : v.ref = r /\ v.remux = m
          /\ ~Exhaustive =>
                \A r \in Range(ref_fingerprints) :
                    \A m \in Range(remux_fingerprints) :
                        \E v \in visited :
                            v.ref = r /\ v.remux = m /\ v.compared

\* the second run of a pipeline whose first run was stopped: it has ended
\* unstopped, the remux is matched to the reference with confidence 0.9
C22_Witness ==
    /\ run = 2
    /\ stale_stop
    /\ pc = "done" /\ ValidMode /\ ~stop_requested
    /\ running /\ matcher_running
    /\ Len(remuxes) = 1
    /\ \E k \in RemuxMatches(events, "rmx1") :
          events[k].reference_path = "ref1" /\ events[k].confidence = 90

-----------------------------------------------------------------------------
(* Strategies and the operations of the matchers                           *)

\* the positions of the exhaustive strategy, and those of the batch strategy
\* at which get_fingerprint and compare_fingerprints are called
ExhaustivePcs == { "ex_outer", "ex_inner", "ex_compare", "ex_after" }

FingerprintPcs == { "fb_ref_fp", "fb_remux_fp" }

-----------------------------------------------------------------------------
(* CorrelationMatcher._chunked_correlation, correlation.py:45-102: the     *)
(* loop over the chunks, one iteration a step, with stop() of the matcher  *)
(* called from another thread between two iterations                       *)

n_chunks == 10

min_valid_chunks == 6

\* What an iteration finds for its chunk: the chunk does not fit the audio
\* or is silent (lines 70-78, "continue"), or its correlation (percent) and
\* delay (ms) are measured: 0.5 exactly, or more.
ChunkOutcomes ==
    { [ kind |-> "skipped", correlation |-> 0, delay_ms |-> 0 ],
      [ kind |-> "measured", correlation |-> 50, delay_ms |-> 0 ],
      [ kind |-> "measured", correlation |-> 60, delay_ms |-> 0 ],
      [ kind |-> "measured", correlation |-> 90, delay_ms |-> 100 ],
      [ kind |-> "measured", correlation |-> 90, delay_ms |-> 120 ] }

\* mutant: a correlation of exactly 0.5 is kept too
ChunkKept_AtHalf(c) == c.kind = "measured" /\ c.correlation >= 50

\* line 83: if correlation > 0.5
ChunkKept(c) == c.kind = "measured" /\ c.correlation > 50

RECURSIVE SumSeq(_)
SumSeq(s) == IF s = << >> THEN 0 ELSE Head(s) + SumSeq(Tail(s))

\* the k-th smallest element of the sequence s
KthSmallest(s, k) ==
    CHOOSE x \in Range(s) :
        /\ Cardinality({ i \in DOMAIN s : s[i] < x }) < k
        /\ Cardinality({ i \in DOMAIN s : s[i] <= x }) >= k

\* np.median(s), doubled: the middle element, or the mean of the two middle
\* elements of a sequence of even length
Median2(s) ==
    IF Len(s) % 2 = 1
    THEN 2 * KthSmallest(s, (Len(s) + 1) \div 2)
    ELSE KthSmallest(s, Len(s) \div 2) + KthSmallest(s, Len(s) \div 2 + 1)

\* line 93: np.median(np.abs(np.array(delays_ms) - median_delay)), times 4
Mad4(s) ==
    Median2([ i \in DOMAIN s |-> Abs(2 * s[i] - Median2(s)) ])

\* lines 87-102: the value returned, confidence num / den, with the info
\* string's kind and the count it prints
ChunkedCorrelationResult(correlations, delays) ==
    IF Len(correlations) < min_valid_chunks
    THEN [ fn |-> "correlation", num |-> 0, den |-> 1,
           info |-> "Only valid chunks", count |-> Len(correlations) ]
    ELSE IF delays # << >>
    THEN IF Mad4(delays) > 4 * 50
         THEN [ fn |-> "correlation", num |-> SumSeq(correlations),
                den |-> 2 * 100 * Len(correlations),
                info |-> "Inconsistent delays",
                count |-> Len(correlations) ]
         ELSE [ fn |-> "correlation", num |-> SumSeq(correlations),
                den |-> 100 * Len(correlations),
                info |-> "Delay", count |-> Len(correlations) ]
    ELSE [ fn |-> "correlation", num |-> 0, den |-> 1,
           info |-> "No valid chunks", count |-> 0 ]

chunk_rest == << mode, language, threshold, matcher, references, remuxes, pc,
                 ref_i, remux_j, best_matches, used_references,
                 comparisons_done, files_done, ref_fingerprints,
                 remux_fingerprints, events, steps, top_scored, visited,
                 duration_cache, stream_info_cache, audio_vars, stream_vars,
                 fp1, fp2, ref_features, remux_features, total_comparisons,
                 thread_vars, run_vars, hash_vars, select_vars >>

\* lines 63-85: one iteration of the loop, entered with the flag set
chunk_step ==
    /\ fn_result.fn = None
    /\ chunk_i < n_chunks
    /\ matcher_running
    /\ \E c \in ChunkOutcomes :
         /\ chunk' = c
         /\ valid_correlations' =
              IF ChunkKept(c) THEN Append(valid_correlations, c.correlation)
              ELSE valid_correlations
         /\ delays_ms' =
              IF ChunkKept(c) THEN Append(delays_ms, c.delay_ms)
              ELSE delays_ms
    /\ chunk_i' = chunk_i + 1
    /\ UNCHANGED << running, matcher_running, stop_requested, fn_result >>
    /\ UNCHANGED chunk_rest

\* MatchingPipeline.stop while compare() runs: both flags are cleared
chunk_stop ==
    /\ fn_result.fn = None
    /\ matcher_running
    /\ running' = FALSE
    /\ matcher_running' = FALSE
    /\ stop_requested' = TRUE
    /\ UNCHANGED << fn_result, chunk_vars >>
    /\ UNCHANGED chunk_rest

\* lines 64-65 and 87-102: the loop is left, at its end or by the break
chunk_return ==
    /\ fn_result.fn = None
    /\ chunk_i = n_chunks \/ ~matcher_running
    /\ fn_result' = ChunkedCorrelationResult(valid_correlations, delays_ms)
    /\ UNCHANGED << running, matcher_running, stop_requested, chunk_vars >>
    /\ UNCHANGED chunk_rest

\* compare() of the correlation matcher has both audio buffers and enters
\* _chunked_correlation (line 43), in a run of the pipeline
InitChunks ==
    /\ mode = "correlation"
    /\ language = None
    /\ threshold = DefaultThreshold
    /\ running = TRUE
    /\ matcher = "correlation"
    /\ matcher_running = TRUE
    /\ references = << "ref1" >>
    /\ remuxes = << "rmx1" >>
    /\ pc = "ex_compare"
    /\ ref_i = 1
    /\ remux_j = 1
    /\ best_matches = [ m \in {"rmx1"} |-> [score |-> -100, ref |-> None] ]
    /\ used_references = {}
    /\ comparisons_done = 1
    /\ files_done = 0
    /\ ref_fingerprints = << >>
    /\ remux_fingerprints = << >>
    /\ events = << ProgressEvent("Starting", 0, None, None),
                   ProgressEvent("Comparing", 100, "ref1", "rmx1") >>
    /\ duration_cache = << >>
    /\ stream_info_cache = << >>
    /\ audio_cache = << >>
    /\ audio_cache_size = 0
    /\ max_audio_bytes = MaxAudioMb
    /\ file_streams = << >>
    /\ request = None
    /\ stream_result = NoResult
    /\ stop_requested = FALSE
    /\ steps = 0
    /\ top_scored = [ m \in {"rmx1"} |-> {} ]
    /\ visited = {}
    /\ cache_ops = << >>
    /\ last_op = NoOp
    /\ fp1 = << >>
    /\ fp2 = << >>
    /\ ref_features = << >>
    /\ remux_features = << >>
    /\ fn_result = NoCall
    /\ total_comparisons = 0
    /\ NoThreads
    /\ run = 1
    /\ matcher_run = 1
    /\ stale_stop = FALSE
    /\ NoChunks
    /\ NoHashes
    /\ NoSelect

NextChunks ==
    \/ chunk_step
    \/ chunk_stop
    \/ chunk_return

SpecChunks == InitChunks /\ [][NextChunks]_vars

\* C24: an iteration of the chunk loop runs only while the matcher's flag is
\* set and keeps its chunk exactly when the chunk's correlation exceeds 0.5;
\* once the flag is cleared no chunk is gone through any more. The value
\* returned is 0.0, with the count of kept chunks in the info string, when
\* fewer than 6 chunks were kept; else the mean of the kept correlations when
\* the median absolute deviation of the kept delays is at most 50 ms, and
\* half that mean, with 'Inconsistent delays', when it exceeds 50 ms.
C24_ChunkedCorrelation ==
    /\ [][ /\ chunk_i' # chunk_i =>
                /\ matcher_running
                /\ chunk_i' = chunk_i + 1
                /\ IF chunk'.kind = "measured" /\ chunk'.correlation > 50
                   THEN /\ valid_correlations' =
                              Append(valid_correlations, chunk'.correlation)
                        /\ delays_ms' = Append(delays_ms, chunk'.delay_ms)
                   ELSE /\ valid_correlations' = valid_correlations
                        /\ delays_ms' = delays_ms
           /\ ~matcher_running => chunk_i' = chunk_i ]_vars
    /\ [] ( fn_result.fn = "correlation" =>
              LET kept == Len(valid_correlations)
                  total == SumSeq(valid_correlations)
              IN  IF kept < 6
                  THEN /\ fn_result.num = 0
                       /\ fn_result.info = "Only valid chunks"
                       /\ fn_result.count = kept
                  ELSE IF Mad4(delays_ms) <= 200
                  THEN /\ fn_result.num * kept * 100 = total * fn_result.den
                       /\ fn_result.info = "Delay"
                  ELSE /\ 2 * fn_result.num * kept * 100
                             = total * fn_result.den
                       /\ fn_result.info = "Inconsistent delays" )

\* ten chunks gone through, six kept, the last one with a correlation of 0.5
\* not kept; three delays of 0 and three of 120 ms: the mean 0.75 is halved
C24_Witness ==
    /\ chunk_i = 10
    /\ chunk.kind = "measured" /\ chunk.correlation = 50
    /\ Len(valid_correlations) = 6
    /\ SumSeq(valid_correlations) = 450
    /\ fn_result.fn = "correlation"
    /\ fn_result.info = "Inconsistent delays"
    /\ fn_result.num * 8 = 3 * fn_result.den

\* the loop left by a stop() after seven chunks, six of them kept, the delays
\* three of 0 and three of 100 ms (deviation 50 ms): the mean is returned
C24_WitnessStopped ==
    /\ chunk_i = 7
    /\ stop_requested
    /\ Len(valid_correlations) = 6
    /\ fn_result.fn = "correlation"
    /\ fn_result.info = "Delay"
    /\ \E i, j \in DOMAIN delays_ms : delays_ms[i] = 0 /\ delays_ms[j] = 100

-----------------------------------------------------------------------------
(* PerceptualHashMatcher, phash.py:16-111: compare(), _get_video_hashes    *)
(* with the cache's _video_hash_cache, and _compare_hash_sequences.  The   *)
(* ffmpeg binary is installed: extract_frames returns a frame or nothing.  *)

\* Bits of one hash: len(ph) * 4 of lines 99-100 (1024 in the source, one
\* hex digit here).
HashBits == 4

\* Most valid frames of a file (n_frames = 25 in the source, line 38).
MaxFrames == 16

\* The films start at most this many frames apart.
MaxShift == 6

HashPaths == { "ref1", "rmx1" }

\* The hash pair (phash, dhash) of the k-th frame of the film.
FilmFrame(k) == << (5 * k + 3) % 16, (7 * k + k \div 4) % 16 >>

\* The same frame after a re-encode: every third frame has one bit of its
\* phash flipped.
Reencoded(k) ==
    IF k % 3 = 0
    THEN << (FilmFrame(k)[1] + 8) % 16, FilmFrame(k)[2] >>
    ELSE FilmFrame(k)

\* The hash lists a file can yield: n valid frames of the film from frame
\* start on, of the original or of a re-encode.
FrameLists ==
    { [ i \in 1..n |-> IF noisy THEN Reencoded(start + i)
                       ELSE FilmFrame(start + i) ] :
        start \in { 0, 2, 5, MaxShift }, n \in { 0, 3, 10, 11, MaxFrames },
        noisy \in BOOLEAN }

\* lines 99-100: bin(int(h1, 16) ^ int(h2, 16)).count('1')
RECURSIVE Hamming(_, _, _)
Hamming(h1, h2, bits) ==
    IF bits = 0 THEN 0
    ELSE (IF h1 % 2 # h2 % 2 THEN 1 ELSE 0)
         + Hamming(h1 \div 2, h2 \div 2, bits - 1)

\* lines 99-103, times 2 * HashBits: ph_sim + dh_sim of one pair of frames
FrameSimilarity(f1, f2) ==
    (HashBits - Hamming(f1[1], f2[1], HashBits))
    + (HashBits - Hamming(f1[2], f2[2], HashBits))

\* mutant: the slice starts one element early
From_OneEarly(seq, n) ==
    IF n > Len(seq) THEN << >>
    ELSE SubSeq(seq, IF n = 0 THEN 1 ELSE n, Len(seq))

\* seq[n:] of Python
From(seq, n) ==
    IF n >= Len(seq) THEN << >> ELSE SubSeq(seq, n + 1, Len(seq))

first_offset == -5

\* line 79: range(-5, 6)
last_offset == 5

min_overlap == 10

\* lines 80-105 for one offset: the aligned lists' common length and the sum
\* of the similarities of their frames
Aligned(seq1, seq2, offset) ==
    LET s1 == IF offset >= 0 THEN From(seq1, offset) ELSE seq1
        s2 == IF offset >= 0 THEN seq2 ELSE From(seq2, -offset)
        min_len == IF Len(s1) < Len(s2) THEN Len(s1) ELSE Len(s2)
    IN  [ min_len |-> min_len,
          sum |-> SumSeq([ i \in 1..min_len |->
                             FrameSimilarity(s1[i], s2[i]) ]) ]

\* lines 79-109: the loop from the given offset on, best the similarity
\* (num / den) and offset kept so far
RECURSIVE HashLoop(_, _, _, _)
HashLoop(seq1, seq2, offset, best) ==
    IF offset > last_offset THEN best
    ELSE LET a == Aligned(seq1, seq2, offset)
             den == 2 * HashBits * a.min_len
         IN  IF a.min_len < min_overlap
             THEN HashLoop(seq1, seq2, offset + 1, best)
             ELSE IF a.sum * best.den > best.num * den
             THEN HashLoop(seq1, seq2, offset + 1,
                           [ num |-> a.sum, den |-> den, offset |-> offset ])
             ELSE HashLoop(seq1, seq2, offset + 1, best)

\* _compare_hash_sequences, lines 73-111
compare_hash_sequences(seq1, seq2) ==
    HashLoop(seq1, seq2, first_offset, [ num |-> 0, den |-> 1, offset |-> 0 ])

\* MediaCache.get_video_hashes, cache.py:87-90
get_video_hashes(cache, path) ==
    IF path \in DOMAIN cache THEN Some(cache[path]) ELSE Absent

\* MediaCache.set_video_hashes, cache.py:92-96
set_video_hashes(cache, path, hashes) ==
    [ p \in DOMAIN cache \cup {path} |->
        IF p = path THEN hashes ELSE cache[p] ]

\* "if x:" / "if not x" of an optional list
Truthy(r) == r.some /\ r.hashes # << >>

\* _get_video_hashes, lines 30-71, given whether the duration probe of line
\* 42 succeeds: the value returned, whether the cache served it, and the
\* two caches afterwards
GetVideoHashes(path, hashes_cache, durations, probe_ok) ==
    LET cached == get_video_hashes(hashes_cache, path)
        hashes == frames[path]
    IN  IF Truthy(cached)
        THEN [ value |-> cached, cached |-> TRUE,
               hashes_cache |-> hashes_cache, durations |-> durations ]
        ELSE IF path \notin DOMAIN durations /\ ~probe_ok
        THEN [ value |-> Absent, cached |-> FALSE,
               hashes_cache |-> hashes_cache, durations |-> durations ]
        ELSE [ value |-> IF Len(hashes) > 10 THEN Some(hashes) ELSE Absent,
               cached |-> FALSE,
               hashes_cache |-> IF hashes # << >>
                                THEN set_video_hashes(hashes_cache, path,
                                                      hashes)
                                ELSE hashes_cache,
               durations |-> set_duration(durations,
                                          {path} \ DOMAIN durations) ]

hash_rest == << pipeline_vars, stream_info_cache, audio_vars, stream_vars,
                fp1, fp2, ref_features, remux_features, fn_result,
                total_comparisons, thread_vars, run_vars, chunk_vars,
                select_vars >>

\* compare(), lines 16-28
hash_compare(ref_path, remux_path) ==
    \E ref_probe, remux_probe \in BOOLEAN :
      LET r1 == GetVideoHashes(ref_path, video_hash_cache, duration_cache,
                               ref_probe)
          r2 == GetVideoHashes(remux_path, r1.hashes_cache, r1.durations,
                               remux_probe)
          best == compare_hash_sequences(r1.value.hashes, r2.value.hashes)
      IN  /\ video_hash_cache' = r2.hashes_cache
          /\ duration_cache' = r2.durations
          /\ hash_result' =
               IF ~Truthy(r1.value) \/ ~Truthy(r2.value)
               THEN [ ref |-> ref_path, remux |-> remux_path,
                      ref_hashes |-> r1.value, remux_hashes |-> r2.value,
                      ref_cached |-> r1.cached, remux_cached |-> r2.cached,
                      num |-> 0, den |-> 1, offset |-> 0,
                      info |-> "Failed to extract video frames" ]
               ELSE [ ref |-> ref_path, remux |-> remux_path,
                      ref_hashes |-> r1.value, remux_hashes |-> r2.value,
                      ref_cached |-> r1.cached, remux_cached |-> r2.cached,
                      num |-> best.num, den |-> best.den,
                      offset |-> best.offset, info |-> "Video pHash" ]
          /\ UNCHANGED frames
          /\ UNCHANGED hash_rest

\* MediaCache.clear, cache.py:31-41, between two comparisons
hash_clear ==
    /\ video_hash_cache # << >> \/ duration_cache # << >>
    /\ video_hash_cache' = << >>
    /\ duration_cache' = << >>
    /\ UNCHANGED << frames, hash_result >>
    /\ UNCHANGED hash_rest

\* The pipeline, in its exhaustive loop with the perceptual-hash matcher,
\* is about to call compare() for the first time; the files yield any of
\* the hash lists.
InitHashes ==
    /\ mode = "phash"
    /\ language = None
    /\ threshold = DefaultThreshold
    /\ running = TRUE
    /\ matcher = "phash"
    /\ matcher_running = TRUE
    /\ references = << "ref1" >>
    /\ remuxes = << "rmx1" >>
    /\ pc = "ex_compare"
    /\ ref_i = 1
    /\ remux_j = 1
    /\ best_matches = [ m \in {"rmx1"} |-> [score |-> -100, ref |-> None] ]
    /\ used_references = {}
    /\ comparisons_done = 1
    /\ files_done = 0
    /\ ref_fingerprints = << >>
    /\ remux_fingerprints = << >>
    /\ events = << ProgressEvent("Starting", 0, None, None),
                   ProgressEvent("Comparing", 100, "ref1", "rmx1") >>
    /\ duration_cache = << >>
    /\ stream_info_cache = << >>
    /\ audio_cache = << >>
    /\ audio_cache_size = 0
    /\ max_audio_bytes = MaxAudioMb
    /\ file_streams = << >>
    /\ request = None
    /\ stream_result = NoResult
    /\ stop_requested = FALSE
    /\ steps = 0
    /\ top_scored = [ m \in {"rmx1"} |-> {} ]
    /\ visited = {}
    /\ cache_ops = << >>
    /\ last_op = NoOp
    /\ fp1 = << >>
    /\ fp2 = << >>
    /\ ref_features = << >>
    /\ remux_features = << >>
    /\ fn_result = NoCall
    /\ total_comparisons = 0
    /\ NoThreads
    /\ run = 1
    /\ matcher_run = 1
    /\ stale_stop = FALSE
    /\ NoChunks
    /\ NoSelect
    /\ frames \in [ HashPaths -> FrameLists ]
    /\ video_hash_cache = << >>
    /\ hash_result = NoHashCompare

NextHashes ==
    \/ hash_compare("ref1", "rmx1")
    \/ hash_clear

SpecHashes == InitHashes /\ [][NextHashes]_vars

\* C25: a file that yields 10 or fewer valid frames is discarded at every
\* request for its hashes, the first one and the later ones alike:
\* _get_video_hashes returns None for it each time and compare() reports
\* 'Failed to extract video frames' for every pair the file is in.
C25_ShortFilesDiscarded ==
    hash_result.ref # None =>
        /\ Len(frames[hash_result.ref]) <= 10 =>
              /\ ~hash_result.ref_hashes.some
              /\ hash_result.info = "Failed to extract video frames"
        /\ Len(frames[hash_result.remux]) <= 10 =>
              /\ ~hash_result.remux_hashes.some
              /\ hash_result.info = "Failed to extract video frames"

\* the offsets of the loop that leave at least 10 overlapping frames
OverlapLen(seq1, seq2, o) ==
    IF o >= 0 THEN Min({ Len(seq1) - o, Len(seq2) })
    ELSE Min({ Len(seq1), Len(seq2) + o })

ValidOffsets(seq1, seq2) ==
    { o \in -5..5 : OverlapLen(seq1, seq2, o) >= 10 }

\* the sum over the overlap at offset o of the two families' similarities,
\* in bits: frame i + o of seq1 lies over frame i of seq2
OverlapSum(seq1, seq2, o) ==
    SumSeq([ i \in 1..OverlapLen(seq1, seq2, o) |->
               LET f1 == IF o >= 0 THEN seq1[i + o] ELSE seq1[i]
                   f2 == IF o >= 0 THEN seq2[i] ELSE seq2[i - o]
               IN  (HashBits - Hamming(f1[1], f2[1], HashBits))
                   + (HashBits - Hamming(f1[2], f2[2], HashBits)) ])

\* C26: the comparison of two hash sequences returns, when some offset in
\* [-5, +5] leaves at least 10 overlapping frames, the highest over these
\* offsets of the mean over the overlap of the per-frame average of the two
\* hash families' normalized Hamming similarities, with an offset that
\* attains it, and similarity 0 with offset 0 when no offset does; the
\* similarity is in [0, 1] and is 1 for identical sequences of at least 10
\* frames.
C26_BestOffset ==
    hash_result.info = "Video pHash" =>
        LET seq1 == hash_result.ref_hashes.hashes
            seq2 == hash_result.remux_hashes.hashes
            valid == ValidOffsets(seq1, seq2)
            num == hash_result.num
            den == hash_result.den
        IN  /\ den > 0 /\ 0 <= num /\ num <= den
            /\ valid = {} => num = 0 /\ hash_result.offset = 0
            /\ valid # {} =>
                  /\ hash_result.offset \in valid
                  /\ num * (2 * HashBits
                            * OverlapLen(seq1, seq2, hash_result.offset))
                        = OverlapSum(seq1, seq2, hash_result.offset) * den
                  /\ \A o \in valid :
                        OverlapSum(seq1, seq2, o) * den
                          <= num * (2 * HashBits * OverlapLen(seq1, seq2, o))
            /\ seq1 = seq2 /\ Len(seq1) >= 10 => num = den

\* the remux starts five frames into the reference and is a re-encode: only
\* offset +5 lays equal frames over each other, eleven of them, and the
\* similarity is below 1
C26_Witness ==
    /\ hash_result.info = "Video pHash"
    /\ hash_result.offset = 5
    /\ Len(hash_result.ref_hashes.hashes) = MaxFrames
    /\ 0 < hash_result.num /\ hash_result.num < hash_result.den
    /\ \A o \in ValidOffsets(hash_result.ref_hashes.hashes,
                              hash_result.remux_hashes.hashes) \ {5} :
          OverlapSum(hash_result.ref_hashes.hashes,
                     hash_result.remux_hashes.hashes, o) * hash_result.den
            < hash_result.num
                * (2 * HashBits * OverlapLen(hash_result.ref_hashes.hashes,
                                             hash_result.remux_hashes.hashes,
                                             o))

\* no offset leaves 10 frames: a cached list of three frames was compared
C26_WitnessNoOverlap ==
    /\ hash_result.info = "Video pHash"
    /\ ValidOffsets(hash_result.ref_hashes.hashes,
                    hash_result.remux_hashes.hashes) = {}
    /\ hash_result.num = 0 /\ hash_result.offset = 0

\* C27: after any sequence of set_audio and clear operations, set_audio on a
\* key that is already cached included, the tracked audio size equals the
\* sum of the byte sizes of the buffers the cache holds, and is 0 whenever
\* the audio cache is empty.
C27_TrackedSizeIsSum ==
    /\ audio_cache_size = SumBytes(audio_cache)
    /\ audio_cache = << >> => audio_cache_size = 0

-----------------------------------------------------------------------------
(* The two strategies of the pipeline run to their end on one table of     *)
(* scores: _run_exhaustive_compare (pipeline.py:106-144) and               *)
(* _run_fingerprint_batch (59-104), no stop(), no pair filtered by         *)
(* duration, a fingerprint for every file.                                 *)

\* Most references and most remuxes of a table.
MaxSelect == 3

TableScores == { 0, 75, 90 }

\* lines 83 and 108: a score of -1 and no reference for every remux
NoBest(remux_list) ==
    [ m \in Range(remux_list) |-> [ score |-> -100, ref |-> None ] ]

\* lines 115-127: the inner loop over the remuxes, for one reference
RECURSIVE ExhaustiveInner(_, _, _, _)
ExhaustiveInner(ref_path, remux_list, table, best) ==
    IF remux_list = << >> THEN best
    ELSE ExhaustiveInner(ref_path, Tail(remux_list), table,
                         UpdateBest(best, Head(remux_list), ref_path,
                                    table[<< ref_path, Head(remux_list) >>]))

\* lines 113-127: the outer loop over the references
RECURSIVE ExhaustiveLoop(_, _, _, _)
ExhaustiveLoop(ref_list, remux_list, table, best) ==
    IF ref_list = << >> THEN best
    ELSE ExhaustiveLoop(Tail(ref_list), remux_list, table,
                        ExhaustiveInner(Head(ref_list), remux_list, table,
                                        best))

\* mutant: a later reference with an equal score replaces the one kept
RECURSIVE BatchInner_LastWins(_, _, _, _)
BatchInner_LastWins(remux_path, ref_list, table, best) ==
    IF ref_list = << >> THEN best
    ELSE BatchInner_LastWins(remux_path, Tail(ref_list), table,
             IF table[<< Head(ref_list), remux_path >>]
                  >= best[remux_path].score
             THEN [ best EXCEPT ![remux_path] =
                      [ score |-> table[<< Head(ref_list), remux_path >>],
                        ref |-> Head(ref_list) ] ]
             ELSE best)

\* lines 87-91: the inner loop over the references, for one remux
RECURSIVE BatchInner(_, _, _, _)
BatchInner(remux_path, ref_list, table, best) ==
    IF ref_list = << >> THEN best
    ELSE BatchInner(remux_path, Tail(ref_list), table,
                    UpdateBest(best, remux_path, Head(ref_list),
                               table[<< Head(ref_list), remux_path >>]))

\* lines 86-91: the outer loop over the remuxes
RECURSIVE BatchLoop(_, _, _, _)
BatchLoop(remux_list, ref_list, table, best) ==
    IF remux_list = << >> THEN best
    ELSE BatchLoop(Tail(remux_list), ref_list, table,
                   BatchInner(Head(remux_list), ref_list, table, best))

\* lines 93-97 and 130-135: used_references after the loop over best_matches
RECURSIVE UsedAfter(_, _, _)
UsedAfter(remux_list, best, thr) ==
    IF remux_list = << >> THEN {}
    ELSE AddUsed(UsedAfter(SubSeq(remux_list, 1, Len(remux_list) - 1), best,
                           thr),
                 best[remux_list[Len(remux_list)]], thr)

\* lines 102-104 and 142-144: the events for the references not used
UnusedEventsFor(ref_list, used) ==
    LET unused == SelectSeq(ref_list, LAMBDA r : r \notin used)
    IN  [ k \in DOMAIN unused |-> UnusedEvent(unused[k]) ]

\* lines 129-144: the events of the exhaustive strategy
ExhaustiveEvents(ref_list, remux_list, best, thr) ==
    [ k \in DOMAIN remux_list |->
        ExhaustiveMatchEvent(remux_list[k], best[remux_list[k]]) ]
    \o UnusedEventsFor(ref_list, UsedAfter(remux_list, best, thr))

\* lines 93-104: the events of the fingerprint-batch strategy
BatchEvents(ref_list, remux_list, best, thr) ==
    [ k \in DOMAIN remux_list |->
        BatchMatchEvent(remux_list[k], best[remux_list[k]]) ]
    \o UnusedEventsFor(ref_list, UsedAfter(remux_list, best, thr))

select_rest == << pipeline_vars, duration_cache, stream_info_cache,
                  audio_vars, stream_vars, fp1, fp2, ref_features,
                  remux_features, fn_result, total_comparisons, thread_vars,
                  run_vars, chunk_vars, hash_vars >>

\* both strategies run on the table
select_both ==
    /\ ~selection.done
    /\ LET ex_best == ExhaustiveLoop(references, remuxes, score_table,
                                     NoBest(remuxes))
           fb_best == BatchLoop(remuxes, references, score_table,
                                NoBest(remuxes))
       IN  selection' =
             [ done |-> TRUE, ex_best |-> ex_best, fb_best |-> fb_best,
               ex_events |-> ExhaustiveEvents(references, remuxes, ex_best,
                                              threshold),
               fb_events |-> BatchEvents(references, remuxes, fb_best,
                                         threshold) ]
    /\ UNCHANGED score_table
    /\ UNCHANGED select_rest

\* The pipeline of a front end that has set a threshold, its matcher built,
\* the file lists given, and the score of every pair.
InitSelect ==
    /\ mode = "correlation"
    /\ language = None
    /\ threshold \in { DefaultThreshold, 90 }
    /\ running = TRUE
    /\ matcher = "correlation"
    /\ matcher_running = TRUE
    /\ \E nr, nm \in 0..MaxSelect :
         /\ references = Prefix(RefPaths, nr)
         /\ remuxes = Prefix(RemuxPaths, nm)
    /\ score_table \in [ Range(references) \X Range(remuxes) -> TableScores ]
    /\ selection = NoSelection
    /\ pc = "dispatch"
    /\ ref_i = 1
    /\ remux_j = 1
    /\ best_matches = << >>
    /\ used_references = {}
    /\ comparisons_done = 0
    /\ files_done = 0
    /\ ref_fingerprints = << >>
    /\ remux_fingerprints = << >>
    /\ events = << ProgressEvent("Starting", 0, None, None) >>
    /\ duration_cache = << >>
    /\ stream_info_cache = << >>
    /\ audio_cache = << >>
    /\ audio_cache_size = 0
    /\ max_audio_bytes = MaxAudioMb
    /\ file_streams = << >>
    /\ request = None
    /\ stream_result = NoResult
    /\ stop_requested = FALSE
    /\ steps = 0
    /\ top_scored = [ m \in Range(remuxes) |-> {} ]
    /\ visited = {}
    /\ cache_ops = << >>
    /\ last_op = NoOp
    /\ fp1 = << >>
    /\ fp2 = << >>
    /\ ref_features = << >>
    /\ remux_features = << >>
    /\ fn_result = NoCall
    /\ total_comparisons = 0
    /\ NoThreads
    /\ run = 1
    /\ matcher_run = 1
    /\ stale_stop = FALSE
    /\ NoChunks
    /\ NoHashes

NextSelect == select_both

SpecSelect == InitSelect /\ [][NextSelect]_vars

\* the references with the highest score for a remux
MaximalRefs(m) ==
    { r \in Range(references) :
        \A q \in Range(references) :
            score_table[<< q, m >>] <= score_table[<< r, m >>] }

\* the first of them in the order of the input list
FirstMaximal(m) ==
    IF references = << >> THEN None
    ELSE references[Min({ k \in DOMAIN references :
                            references[k] \in MaximalRefs(m) })]

MatchEventsOf(evs) == SelectSeq(evs, LAMBDA e : e.remux_path # None)

UnusedOf(evs) ==
    { evs[k].reference_path : k \in { i \in DOMAIN evs :
                                         evs[i].status = "Unused" } }

\* C28: on the same table of scores (all >= 0, no pair filtered, no
\* extraction failure) the exhaustive strategy and the fingerprint-batch
\* strategy select the same reference for every remux, the first reference
\* in the order of the input list among those with the highest score for
\* that remux, and report the same set of unused references.
C28_StrategiesAgree ==
    selection.done =>
        /\ \A k \in DOMAIN remuxes :
              /\ selection.ex_best[remuxes[k]].ref = FirstMaximal(remuxes[k])
              /\ selection.fb_best[remuxes[k]].ref = FirstMaximal(remuxes[k])
              /\ MatchEventsOf(selection.ex_events)[k].remux_path
                    = remuxes[k]
              /\ MatchEventsOf(selection.fb_events)[k].remux_path
                    = remuxes[k]
              /\ MatchEventsOf(selection.ex_events)[k].reference_path
                    = FirstMaximal(remuxes[k])
              /\ MatchEventsOf(selection.fb_events)[k].reference_path
                    = FirstMaximal(remuxes[k])
        /\ Len(MatchEventsOf(selection.ex_events)) = Len(remuxes)
        /\ Len(MatchEventsOf(selection.fb_events)) = Len(remuxes)
        /\ UnusedOf(selection.ex_events) = UnusedOf(selection.fb_events)

\* three references and two remuxes: the second and third reference tie at
\* the top for the first remux and the second is selected by both; the
\* first reference is reported unused by both
C28_Witness ==
    /\ selection.done
    /\ Len(references) = 3 /\ Len(remuxes) = 2
    /\ score_table[<< "ref1", "rmx1" >>] = 75
    /\ score_table[<< "ref2", "rmx1" >>] = 90
    /\ score_table[<< "ref3", "rmx1" >>] = 90
    /\ selection.ex_best["rmx1"].ref = "ref2"
    /\ selection.fb_best["rmx1"].ref = "ref2"
    /\ "ref1" \in UnusedOf(selection.ex_events)
    /\ "ref1" \in UnusedOf(selection.fb_events)

-----------------------------------------------------------------------------
(* Match events and the end of the comparisons                             *)

AllPairsVisited(refs, rmxs) ==
    \A r \in refs : \A m \in rmxs :
        \E v \in visited : v.ref = r /\ v.remux = m

\* The last comparison of the run has finished: the exhaustive loops have
\* gone through the whole cross product; the batch strategy has gone through
\* every file and through every pair of fingerprints.
ComparisonsFinished ==
    IF Exhaustive
    THEN AllPairsVisited(Range(references), Range(remuxes))
    ELSE /\ files_done = Len(references) + Len(remuxes)
         /\ pc \notin FingerprintPcs
         /\ AllPairsVisited(Range(ref_fingerprints),
                            Range(remux_fingerprints))

\* C29: in both strategies no match event is emitted before the last
\* comparison of the run has finished; so a run in which stop() takes effect
\* before the comparison loops complete emits no match event at all, up to
\* its end, even for a remux whose comparisons against every reference had
\* completed.
C29_NoEarlyMatchEvent ==
    ValidMode =>
        /\ NumMatchEvents(events) > 0 => ComparisonsFinished
        /\ (stop_requested /\ ~ComparisonsFinished)
              => NumMatchEvents(events) = 0
        /\ (pc = "done" /\ ~ComparisonsFinished)
              => /\ stop_requested
                 /\ NumMatchEvents(events) = 0

\* an exhaustive run over two references and two remuxes, stopped after the
\* first remux was compared against both references and before the last
\* pair: the run has ended without a match event
C29_Witness ==
    /\ Exhaustive
    /\ pc = "done"
    /\ stop_requested
    /\ Len(references) = 2 /\ Len(remuxes) = 2
    /\ AllPairsVisited(Range(references), {remuxes[1]})
    /\ ~AllPairsVisited(Range(references), {remuxes[2]})
    /\ NumMatchEvents(events) = 0

\* a batch run stopped among its fingerprint comparisons, after the first
\* remux was compared against every reference: no match event either
C29_WitnessBatch ==
    /\ ValidMode /\ ~Exhaustive
    /\ pc = "done"
    /\ stop_requested
    /\ Len(ref_fingerprints) = 2 /\ Len(remux_fingerprints) = 2
    /\ AllPairsVisited(Range(ref_fingerprints), {remux_fingerprints[1]})
    /\ ~AllPairsVisited(Range(ref_fingerprints), {remux_fingerprints[2]})
    /\ NumMatchEvents(events) = 0

-----------------------------------------------------------------------------
(* The front end's modes, main.py:260-262                                  *)

\* start_matching: the identifier passed to set_mode for each entry of the
\* mode box
mode_map ==
    ("Correlation (Audio)" :> "correlation")
    @@ ("Chromaprint (Audio)" :> "chromaprint")
    @@ ("MFCC (Audio)" :> "mfcc")
    @@ ("Panako (Audio)" :> "panako")
    @@ ("Perceptual Hash (Video)" :> "phash")
    @@ ("Scene Detection (Video)" :> "scene")

FrontEndModes == { mode_map[text] : text \in DOMAIN mode_map }

\* C30: every mode identifier the front end can pass to set_mode
\* (correlation, chromaprint, mfcc, panako, phash, scene) selects a matcher
\* in the pipeline, so a run started from the front end never ends with the
\* 'Invalid matcher mode' event.
C30_FrontEndModesSelectMatcher ==
    /\ FrontEndModes = { "correlation", "chromaprint", "mfcc", "panako",
                         "phash", "scene" }
    /\ mode \in FrontEndModes =>
          /\ pc \notin { "idle", "get_matcher" } => matcher # None
          /\ \A k \in DOMAIN events :
                events[k].message # "Invalid matcher mode"

=============================================================================
